---------------------------- MODULE Spec2Model ----------------------------
(***************************************************************************)
(* A model of simple-sync-server: the store (MemoryStore), the schema      *)
(* validator and the HTTP handlers' core logic (doUpsertItem, doSync,       *)
(* doGetItemsSince, doDeleteItem, the schema endpoints).                    *)
(*                                                                         *)
(* Go values are modelled as follows.                                       *)
(*  - A Go string is a tuple of tokens (TLA+ strings); "" is << >>.  A      *)
(*    timestamp "2024-01-01T01:00:00Z" is <<"T1", "Z">>: a date-time part   *)
(*    and a zone part.  The handlers never inspect a collection name and    *)
(*    theirs stay plain TLA+ strings; the file backend builds file names    *)
(*    from collection names, and the names it is given are tuples of tokens.*)
(*  - A JSON value (Go `any`) is a tagged record [t |-> tag, v |-> value].  *)
(*  - A map[string]any is a function whose domain is the set of its keys.   *)
(*  - A nil map is Nil.                                                     *)
(***************************************************************************)
EXTENDS Integers, Sequences, FiniteSets, TLC

VARIABLES
    collections,  \* MemoryStore.collections: collection -> key -> document
    schemas,      \* MemoryStore.schemas: collection -> schema
    now,          \* the server's clock (time.Now), in hours
    pc,           \* per request handler: the store call it is about to make
    req,          \* per request handler: the decoded request
    serverDocs,   \* doSync: the working copy returned by GetAll
    idx,          \* doSync: index of the candidate the loop is at
    serverTime,   \* doSync: the serverTime taken when the request arrived
    resp,         \* per request handler: the response written
    pre,          \* history: collections when the request started
    lastPut,      \* history: per key, the handler whose Put or Delete was last
    issued,       \* history: serverTime of the client's last answered sync
    since,        \* history: <<key, doc>> stored by others after `issued`,
                  \* and still stored
    dir,          \* JsonFileStore.dir: the files of the directory, by name
    tblDocuments, \* SqliteStore: table documents, <<collection, key>> -> data
    tblSchemas,   \* SqliteStore: table schemas, collection -> schema
    ret,          \* the last call of the store interface and what each
                  \* backend returned
    backend,      \* the backend store.New has built for the process
    mu,           \* its sync.RWMutex: a writer holds it (w), count of readers (r)
    call,         \* per concurrent caller of the store: the method it is in,
                  \* its position, its locals and its result
    committed,    \* history: per key, the document of the last finished
                  \* Put or Delete
    full,         \* history: per caller and key, the documents a read may
                  \* return in full: the committed one when the call began
                  \* and those of the writes its call overlaps
    heap,         \* the Go heap: address -> the map or slice at the address,
                  \* whose nested maps and slices are references
    held,         \* per caller of MemoryStore: the map it holds (the one it
                  \* built or the one the last call returned)
    edited        \* the caller whose step has just changed the map it holds,
                  \* and whether it changed a nested map or slice

\* the state of the concurrent callers of one backend
locking == <<backend, mu, call, committed, full>>

\* the maps of MemoryStore as objects of the heap, and who holds them
aliasing == <<heap, held, edited>>

\* the state of the file and database backends and of their callers
backends == <<dir, tblDocuments, tblSchemas, ret, locking, aliasing>>

vars == <<collections, schemas, now, pc, req, serverDocs, idx, serverTime,
          resp, pre, lastPut, issued, since, backends>>

----------------------------------------------------------------------------
(* Go values *)

Nil == [nil |-> TRUE]

Null == [t |-> "null"]
Str(s) == [t |-> "string", v |-> s]
Bool(b) == [t |-> "bool", v |-> b]
\* a float64, counted in halves: Float(10) is 5.0, Float(11) is 5.5
Float(h) == [t |-> "float64", v |-> h]
\* a Go int (only a caller of the store can build one; JSON decoding cannot)
GoInt(n) == [t |-> "int", v |-> n]
Arr(a) == [t |-> "array", v |-> a]
Obj(m) == [t |-> "object", v |-> m]
\* a Go value encoding/json cannot marshal (a func, a chan, NaN)
Unsupported == [t |-> "func"]

\* a one-token string
Word(w) == Str(<<w>>)

EmptyMap == << >>

\* m[k] = v on a map
MapPut(m, k, v) == [x \in DOMAIN m \cup {k} |-> IF x = k THEN v ELSE m[x]]

\* delete(m, k)
MapDelete(m, k) == [x \in DOMAIN m \ {k} |-> m[x]]

\* v, ok := m[k].(string): the string, or "" when the field is absent or
\* holds no string
StringField(m, k) ==
    IF k \in DOMAIN m /\ m[k].t = "string" THEN m[k].v ELSE << >>

\* ok of v, ok := m[k].(string)
IsStringField(m, k) == k \in DOMAIN m /\ m[k].t = "string"

----------------------------------------------------------------------------
(* Time: parseISO, Time.After, Time.Format *)

\* the date-time parts "2006-01-02T15:04:05", in chronological order: the
\* i-th is hour i
DtToken == <<"T1", "T2", "T3">>

DtTokens == {DtToken[i] : i \in 1..Len(DtToken)}

DtValue(tok) == CHOOSE i \in 1..Len(DtToken) : DtToken[i] = tok

\* the numeric zone offsets "Z07:00" of RFC 3339, in hours
ZoneOffset(z) == CASE z = "+00:00" -> 0 [] z = "+01:00" -> 1 [] z = "Z" -> 0

ZoneTokens == {"+00:00", "+01:00", "Z"}

\* strings.Replace(s, "Z", "+00:00", 1)
ReplaceFirstZ(s) ==
    LET zs == {i \in 1..Len(s) : s[i] = "Z"}
    IN  IF zs = {} THEN s
        ELSE LET i == CHOOSE j \in zs : \A l \in zs : j <= l
             IN  [s EXCEPT ![i] = "+00:00"]

\* time.Parse(time.RFC3339, s)
ParseRFC3339(s) ==
    IF Len(s) = 2 /\ s[1] \in DtTokens /\ s[2] \in ZoneTokens
    THEN [ok |-> TRUE, t |-> DtValue(s[1]) - ZoneOffset(s[2])]
    ELSE [ok |-> FALSE, t |-> 0]

\* time.Parse("2006-01-02T15:04:05", s), read as UTC
ParseBare(s) ==
    IF Len(s) = 1 /\ s[1] \in DtTokens
    THEN [ok |-> TRUE, t |-> DtValue(s[1])]
    ELSE [ok |-> FALSE, t |-> 0]

parseISO(s) ==
    LET r == ReplaceFirstZ(s)
    IN  IF ParseRFC3339(r).ok THEN ParseRFC3339(r)
        ELSE IF ParseBare(r).ok THEN ParseBare(r)
        ELSE [ok |-> FALSE, t |-> 0]

\* a.After(b)
After(a, b) == a > b

\* time.Now().UTC().Format(time.RFC3339)
FormatRFC3339(n) == <<DtToken[n], "Z">>

----------------------------------------------------------------------------
(* MemoryStore *)

RECURSIVE CanMarshal(_)
CanMarshal(val) ==
    CASE val.t = "func" -> FALSE
      [] val.t = "array" -> \A i \in 1..Len(val.v) : CanMarshal(val.v[i])
      [] val.t = "object" -> \A k \in DOMAIN val.v : CanMarshal(val.v[k])
      [] OTHER -> TRUE

\* json.Unmarshal(json.Marshal(v)): every number comes back a float64
RECURSIVE Reparse(_)
Reparse(val) ==
    CASE val.t = "int" -> Float(2 * val.v)
      [] val.t = "array" -> Arr([i \in 1..Len(val.v) |-> Reparse(val.v[i])])
      [] val.t = "object" -> Obj([k \in DOMAIN val.v |-> Reparse(val.v[k])])
      [] OTHER -> val

\* deepCopy: a JSON round trip whose errors are dropped; a document that
\* cannot be marshalled comes back nil
deepCopy(src) ==
    IF src = Nil THEN Nil
    ELSE IF ~CanMarshal(Obj(src)) THEN Nil
    ELSE Reparse(Obj(src)).v

\* the results of the read operations, on the store fields (c, s)
GetAll(c, collection) ==
    IF collection \notin DOMAIN c THEN EmptyMap
    ELSE [k \in DOMAIN c[collection] |-> deepCopy(c[collection][k])]

Get(c, collection, key) ==
    IF collection \notin DOMAIN c THEN Nil
    ELSE IF key \notin DOMAIN c[collection] THEN Nil
    ELSE deepCopy(c[collection][key])

\* Put that inserts but does not replace
PutIfAbsent(c, collection, key, data) ==
    IF collection \in DOMAIN c /\ key \in DOMAIN c[collection] THEN c
    ELSE LET c1 == IF collection \in DOMAIN c THEN c
                   ELSE MapPut(c, collection, EmptyMap)
         IN  MapPut(c1, collection, MapPut(c1[collection], key, deepCopy(data)))

\* the value of the collections field after Put
Put(c, collection, key, data) ==
    LET c1 == IF collection \in DOMAIN c THEN c
              ELSE MapPut(c, collection, EmptyMap)
    IN  MapPut(c1, collection, MapPut(c1[collection], key, deepCopy(data)))

\* existed of Delete
DeleteExisted(c, collection, key) ==
    collection \in DOMAIN c /\ key \in DOMAIN c[collection]

\* Delete that keeps the document, marked as deleted
DeleteTombstone(c, collection, key) ==
    IF DeleteExisted(c, collection, key)
    THEN MapPut(c, collection,
                MapPut(c[collection], key,
                       MapPut(c[collection][key], "deleted", Bool(TRUE))))
    ELSE c

\* the value of the collections field after Delete
Delete(c, collection, key) ==
    IF DeleteExisted(c, collection, key)
    THEN MapPut(c, collection, MapDelete(c[collection], key))
    ELSE c

GetSchema(s, collection) ==
    IF collection \notin DOMAIN s THEN Nil ELSE deepCopy(s[collection])

PutSchema(s, collection, schema) == MapPut(s, collection, deepCopy(schema))

DeleteSchemaExisted(s, collection) == collection \in DOMAIN s

DeleteSchema(s, collection) ==
    IF collection \in DOMAIN s THEN MapDelete(s, collection) ELSE s

\* the bytes of the strings the stores sort, in byte order: '.' < '_' < 'a'
Alphabet == <<".json", "_", "col1", "notes", "schemas", "tasks">>

TokenRank(tok) == CHOOSE i \in 1..Len(Alphabet) : Alphabet[i] = tok

\* a < b on Go strings
RECURSIVE StringLess(_, _)
StringLess(a, b) ==
    IF a = << >> THEN b # << >>
    ELSE IF b = << >> THEN FALSE
    ELSE IF Head(a) = Head(b) THEN StringLess(Tail(a), Tail(b))
    ELSE TokenRank(Head(a)) < TokenRank(Head(b))

\* sort.Strings on the names appended: the sequence of S in increasing order
RECURSIVE SortStrings(_)
SortStrings(S) ==
    IF S = {} THEN << >>
    ELSE LET first == CHOOSE x \in S : \A y \in S \ {x} : StringLess(x, y)
         IN  <<first>> \o SortStrings(S \ {first})

ListCollections(c) == SortStrings({name \in DOMAIN c : DOMAIN c[name] # {}})

ListSchemas(s) == [k \in DOMAIN s |-> deepCopy(s[k])]

----------------------------------------------------------------------------
(* encoding/json as the file and database backends use it.  A JSON text is  *)
(* modelled by the JSON value it denotes: marshalling turns every number    *)
(* into a JSON number and a nil map into null.                              *)

\* a map[string]any held in an `any`
AsValue(m) == IF m = Nil THEN Null ELSE Obj(m)

\* err != nil of json.Marshal
MarshalErr(val) == ~CanMarshal(val)

\* the text json.Marshal writes
Marshal(val) == Reparse(val)

\* the content of a file that os.WriteFile has opened and not yet written
Truncated == [t |-> "truncated"]

\* err != nil of json.Unmarshal into a map[string]any
UnmarshalErr(text) == text.t \notin {"object", "null"}

\* the map json.Unmarshal fills: null leaves it nil
Unmarshal(text) == IF text.t = "object" THEN text.v ELSE Nil

\* ranging over a map that may be nil
RangeOf(m) == IF m = Nil THEN EmptyMap ELSE m

----------------------------------------------------------------------------
(* JsonFileStore, on the files of its directory (d) *)

collectionPath(collection) == collection \o <<".json">>

schemasPath == <<"_", "schemas", ".json">>

\* loadFile: a missing or malformed file is an empty map
loadFile(d, path) ==
    IF path \notin DOMAIN d THEN EmptyMap
    ELSE IF UnmarshalErr(d[path]) THEN EmptyMap
    ELSE Unmarshal(d[path])

\* the directory after saveFile; a marshalling error writes nothing
saveFile(d, path, data) ==
    IF MarshalErr(data) THEN d ELSE MapPut(d, path, Marshal(data))

\* loadCollection: the entries of the file that are objects
loadCollection(d, path) ==
    LET raw == RangeOf(loadFile(d, path))
    IN  [k \in {x \in DOMAIN raw : raw[x].t = "object"} |-> raw[k].v]

\* a map of documents as the value saveFile is given
ToValues(coll) == Obj([k \in DOMAIN coll |-> AsValue(coll[k])])

JsonGetAll(d, collection) == loadCollection(d, collectionPath(collection))

JsonGet(d, collection, key) ==
    LET coll == loadCollection(d, collectionPath(collection))
    IN  IF key \notin DOMAIN coll THEN Nil ELSE coll[key]

\* Put that writes a file holding the new document only
JsonPutAlone(d, collection, key, data) ==
    saveFile(d, collectionPath(collection), ToValues(MapPut(EmptyMap, key, data)))

JsonPut(d, collection, key, data) ==
    LET path == collectionPath(collection)
        coll == loadCollection(d, path)
    IN  saveFile(d, path, ToValues(MapPut(coll, key, data)))

\* err != nil of Put
JsonPutErr(d, collection, key, data) ==
    MarshalErr(ToValues(MapPut(loadCollection(d, collectionPath(collection)),
                               key, data)))

\* existed of a Delete that looks for the file, not for the key
JsonDeleteExistedFile(d, collection, key) ==
    collectionPath(collection) \in DOMAIN d

JsonDeleteExisted(d, collection, key) ==
    key \in DOMAIN loadCollection(d, collectionPath(collection))

JsonDelete(d, collection, key) ==
    LET path == collectionPath(collection)
        coll == loadCollection(d, path)
    IN  IF key \notin DOMAIN coll THEN d
        ELSE saveFile(d, path, ToValues(MapDelete(coll, key)))

\* the names of the files "<name>.json" that do not start with "_", sorted
JsonListCollections(d) ==
    SortStrings({SubSeq(name, 1, Len(name) - 1) :
                    name \in {x \in DOMAIN d : /\ x[1] # "_"
                                               /\ x[Len(x)] = ".json"}})

JsonGetSchema(d, collection) ==
    LET all == RangeOf(loadFile(d, schemasPath))
    IN  IF collection \notin DOMAIN all THEN Nil
        ELSE IF all[collection].t = "object" THEN all[collection].v
        ELSE Nil

JsonPutSchema(d, collection, schema) ==
    saveFile(d, schemasPath,
             Obj(MapPut(RangeOf(loadFile(d, schemasPath)), collection,
                        AsValue(schema))))

JsonDeleteSchemaExisted(d, collection) ==
    collection \in DOMAIN RangeOf(loadFile(d, schemasPath))

JsonDeleteSchema(d, collection) ==
    LET all == RangeOf(loadFile(d, schemasPath))
    IN  IF collection \notin DOMAIN all THEN d
        ELSE saveFile(d, schemasPath, Obj(MapDelete(all, collection)))

JsonListSchemas(d) ==
    LET raw == RangeOf(loadFile(d, schemasPath))
    IN  [k \in {x \in DOMAIN raw : raw[x].t = "object"} |-> raw[k].v]

----------------------------------------------------------------------------
(* SqliteStore, on its tables: documents (t) maps the primary key           *)
(* <<collection, key>> to the column data, schemas (t) maps the primary key *)
(* collection to the column schema.                                         *)

\* the rows of a collection whose data unmarshals
SqliteGetAll(t, collection) ==
    LET keys == {r[2] : r \in {x \in DOMAIN t : /\ x[1] = collection
                                                /\ ~UnmarshalErr(t[x])}}
    IN  [k \in keys |-> Unmarshal(t[<<collection, k>>])]

SqliteGet(t, collection, key) ==
    IF <<collection, key>> \notin DOMAIN t THEN Nil
    ELSE IF UnmarshalErr(t[<<collection, key>>]) THEN Nil
    ELSE Unmarshal(t[<<collection, key>>])

\* Put that leaves an existing row alone (ON CONFLICT DO NOTHING)
SqlitePutIgnore(t, collection, key, data) ==
    IF MarshalErr(AsValue(data)) \/ <<collection, key>> \in DOMAIN t THEN t
    ELSE MapPut(t, <<collection, key>>, Marshal(AsValue(data)))

\* INSERT ... ON CONFLICT(collection, key) DO UPDATE
SqlitePut(t, collection, key, data) ==
    IF MarshalErr(AsValue(data)) THEN t
    ELSE MapPut(t, <<collection, key>>, Marshal(AsValue(data)))

SqlitePutErr(data) == MarshalErr(AsValue(data))

\* RowsAffected > 0
SqliteDeleteExisted(t, collection, key) == <<collection, key>> \in DOMAIN t

SqliteDelete(t, collection, key) == MapDelete(t, <<collection, key>>)

\* SELECT DISTINCT collection ... ORDER BY collection
SqliteListCollections(t) == SortStrings({r[1] : r \in DOMAIN t})

SqliteGetSchema(t, collection) ==
    IF collection \notin DOMAIN t THEN Nil
    ELSE IF UnmarshalErr(t[collection]) THEN Nil
    ELSE Unmarshal(t[collection])

SqlitePutSchema(t, collection, schema) ==
    IF MarshalErr(AsValue(schema)) THEN t
    ELSE MapPut(t, collection, Marshal(AsValue(schema)))

SqliteDeleteSchemaExisted(t, collection) == collection \in DOMAIN t

SqliteDeleteSchema(t, collection) == MapDelete(t, collection)

SqliteListSchemas(t) ==
    [k \in {x \in DOMAIN t : ~UnmarshalErr(t[x])} |-> Unmarshal(t[k])]

----------------------------------------------------------------------------
(* Schema validator.  An error is [path, kind]; each operator returns the   *)
(* set of errors the code may return (Go visits the entries of a map in an  *)
(* unspecified order), the empty set standing for a nil error.              *)

Err(path, kind) == [path |-> path, kind |-> kind]

IsMap(val) == val.t = "object"

\* toFloat: ok, and the number in halves
ToFloatOk(m, k) == k \in DOMAIN m /\ m[k].t \in {"float64", "int"}

ToFloat(m, k) == IF m[k].t = "int" THEN 2 * m[k].v ELSE m[k].v

jsonType(val) ==
    CASE val.t = "null" -> "null"
      [] val.t = "object" -> "object"
      [] val.t = "array" -> "array"
      [] val.t = "string" -> "string"
      [] val.t = "bool" -> "boolean"
      [] val.t = "float64" -> "number"
      [] val.t = "int" -> "integer"
      [] OTHER -> val.t

\* the largest int64, with int64 scaled to 8 bits
Int64Max == 127

\* int64(f) for the float of h halves: f truncated toward zero; when an
\* int64 cannot hold it the conversion yields an implementation-dependent
\* int64, any of them
Int64Of(h) ==
    LET i == IF h >= 0 THEN h \div 2 ELSE -((-h) \div 2)
    IN  IF i \in (-Int64Max - 1)..Int64Max THEN {i}
        ELSE (-Int64Max - 1)..Int64Max

\* f, ok := value.(float64); ok && f == float64(int64(f)): no int64 gives
\* back a float an int64 cannot hold, whichever the conversion yields
IsWhole(val) == val.t = "float64" /\ \E i \in Int64Of(val.v) : 2 * i = val.v

\* checkType; expected is the one-token name of the type
checkType(expected, val, path) ==
    IF expected = <<"integer">>
    THEN IF IsWhole(val) \/ jsonType(val) = "integer" THEN {}
         ELSE {Err(path, "type")}
    ELSE IF <<jsonType(val)>> # expected
         THEN IF expected = <<"number">> /\ jsonType(val) = "integer" THEN {}
              ELSE {Err(path, "type")}
         ELSE {}

\* checkEnum: reflect.DeepEqual against each member
checkEnum(allowed, val, path) ==
    IF \E i \in 1..Len(allowed) : allowed[i] = val THEN {}
    ELSE {Err(path, "enum")}

\* the first non-nil error of a sequence of checks run in order
RECURSIVE FirstErr(_)
FirstErr(checks) ==
    IF checks = << >> THEN {}
    ELSE IF Head(checks) # {} THEN Head(checks)
    ELSE FirstErr(Tail(checks))

validateString(schema, s, path) ==
    FirstErr(<<
        IF ToFloatOk(schema, "minLength") /\ 2 * Len(s) < ToFloat(schema, "minLength")
        THEN {Err(path, "minLength")} ELSE {},
        IF ToFloatOk(schema, "maxLength") /\ 2 * Len(s) > ToFloat(schema, "maxLength")
        THEN {Err(path, "maxLength")} ELSE {} >>)

validateNumber(schema, n, path) ==
    FirstErr(<<
        IF ToFloatOk(schema, "minimum") /\ n < ToFloat(schema, "minimum")
        THEN {Err(path, "minimum")} ELSE {},
        IF ToFloatOk(schema, "maximum") /\ n > ToFloat(schema, "maximum")
        THEN {Err(path, "maximum")} ELSE {},
        IF ToFloatOk(schema, "exclusiveMinimum")
           /\ n <= ToFloat(schema, "exclusiveMinimum")
        THEN {Err(path, "exclusiveMinimum")} ELSE {},
        IF ToFloatOk(schema, "exclusiveMaximum")
           /\ n >= ToFloat(schema, "exclusiveMaximum")
        THEN {Err(path, "exclusiveMaximum")} ELSE {} >>)

\* RequiredErrs that takes a field holding null for a missing one
RequiredErrsNonNull(schema, obj, path) ==
    IF "required" \in DOMAIN schema /\ schema["required"].t = "array"
    THEN LET req_ == schema["required"].v
             missing == {i \in 1..Len(req_) :
                            req_[i].t = "string" /\ req_[i].v \notin
                                {<<f>> : f \in {g \in DOMAIN obj :
                                                   obj[g] # Null}}}
         IN  IF missing = {} THEN {} ELSE {Err(path, "required")}
    ELSE {}

\* the required loop of validateObject: the first missing name, in list order
RequiredErrs(schema, obj, path) ==
    IF "required" \in DOMAIN schema /\ schema["required"].t = "array"
    THEN LET req_ == schema["required"].v
             missing == {i \in 1..Len(req_) :
                            req_[i].t = "string" /\ req_[i].v \notin
                                {<<f>> : f \in DOMAIN obj}}
         IN  IF missing = {} THEN {} ELSE {Err(path, "required")}
    ELSE {}

\* AdditionalErrs that allows every field when the schema has no properties
AdditionalErrsNeedsProperties(schema, obj, path) ==
    IF "additionalProperties" \in DOMAIN schema
       /\ schema["additionalProperties"] = Bool(FALSE)
       /\ "properties" \in DOMAIN schema
       /\ IsMap(schema["properties"])
    THEN IF DOMAIN obj \ DOMAIN schema["properties"].v # {}
         THEN {Err(path, "additionalProperties")} ELSE {}
    ELSE {}

\* the additionalProperties block of validateObject
AdditionalErrs(schema, obj, path) ==
    IF "additionalProperties" \in DOMAIN schema
       /\ schema["additionalProperties"] = Bool(FALSE)
    THEN LET propsMap ==
                 IF "properties" \in DOMAIN schema /\ IsMap(schema["properties"])
                 THEN schema["properties"].v ELSE EmptyMap
             extra == DOMAIN obj \ DOMAIN propsMap
         IN  IF extra # {} THEN {Err(path, "additionalProperties")} ELSE {}
    ELSE {}

RECURSIVE validateValue(_, _, _)

\* the properties loop of validateObject: the map is ranged over in any
\* order, so the error of any failing property may be the one returned
PropertiesErrs(schema, obj, path) ==
    IF "properties" \in DOMAIN schema /\ IsMap(schema["properties"])
    THEN LET propsMap == schema["properties"].v
         IN  UNION {validateValue(propsMap[f].v, obj[f], Append(path, f)) :
                      f \in {g \in DOMAIN propsMap \cap DOMAIN obj :
                                IsMap(propsMap[g])}}
    ELSE {}

validateObject(schema, obj, path) ==
    FirstErr(<<RequiredErrs(schema, obj, path),
               PropertiesErrs(schema, obj, path),
               AdditionalErrs(schema, obj, path)>>)

\* the items loop of validateArray: the error of the first failing element
RECURSIVE ItemsErrs(_, _, _, _)
ItemsErrs(itemSchema, arr, path, i) ==
    IF i > Len(arr) THEN {}
    ELSE LET e == validateValue(itemSchema, arr[i], Append(path, ToString(i - 1)))
         IN  IF e # {} THEN e ELSE ItemsErrs(itemSchema, arr, path, i + 1)

validateArray(schema, arr, path) ==
    FirstErr(<<
        IF ToFloatOk(schema, "minItems") /\ 2 * Len(arr) < ToFloat(schema, "minItems")
        THEN {Err(path, "minItems")} ELSE {},
        IF ToFloatOk(schema, "maxItems") /\ 2 * Len(arr) > ToFloat(schema, "maxItems")
        THEN {Err(path, "maxItems")} ELSE {},
        IF "items" \in DOMAIN schema /\ IsMap(schema["items"])
        THEN ItemsErrs(schema["items"].v, arr, path, 1) ELSE {} >>)

\* validateValue that checks enum before type
validateValueEnumFirst(schema, val, path) ==
    LET typeErr == IF IsStringField(schema, "type")
                   THEN checkType(schema["type"].v, val, path) ELSE {}
        enumErr == IF "enum" \in DOMAIN schema /\ schema["enum"].t = "array"
                   THEN checkEnum(schema["enum"].v, val, path) ELSE {}
    IN  IF enumErr # {} THEN enumErr
        ELSE IF typeErr # {} THEN typeErr
        ELSE CASE val.t = "object" -> validateObject(schema, val.v, path)
               [] val.t = "array" -> validateArray(schema, val.v, path)
               [] val.t = "string" -> validateString(schema, val.v, path)
               [] val.t = "float64" -> validateNumber(schema, val.v, path)
               [] OTHER -> {}

validateValue(schema, val, path) ==
    LET typeErr == IF IsStringField(schema, "type")
                   THEN checkType(schema["type"].v, val, path) ELSE {}
        enumErr == IF "enum" \in DOMAIN schema /\ schema["enum"].t = "array"
                   THEN checkEnum(schema["enum"].v, val, path) ELSE {}
    IN  IF typeErr # {} THEN typeErr
        ELSE IF enumErr # {} THEN enumErr
        ELSE CASE val.t = "object" -> validateObject(schema, val.v, path)
               [] val.t = "array" -> validateArray(schema, val.v, path)
               [] val.t = "string" -> validateString(schema, val.v, path)
               [] val.t = "float64" -> validateNumber(schema, val.v, path)
               [] OTHER -> {}

\* Validate: the errors it may return; {} is nil
Validate(schema, doc) ==
    IF schema = Nil THEN {} ELSE validateValue(schema, Obj(doc), <<"$">>)

----------------------------------------------------------------------------
(* Request handlers.  Each action runs one handler from one call of the     *)
(* store to the next: the store's lock makes each call atomic, and the      *)
(* code between two calls touches only the handler's own locals.            *)

Procs == {1, 2}

\* fails: the methods of the store that return an error while the request is
\* served (none where the store is the memory one, which returns none)
NoReq == [op |-> "none", collection |-> "", key |-> << >>, doc |-> Nil,
          items |-> << >>, notes |-> << >>, lastSyncTime |-> Null,
          fails |-> {}]

NoResp == [status |-> 0, body |-> Nil]

StatusOK == 200
StatusBadRequest == 400
StatusNotFound == 404
StatusUnprocessableEntity == 422
StatusInternalServerError == 500

Respond(p, status, body) ==
    /\ resp' = [resp EXCEPT ![p] = [status |-> status, body |-> body]]
    /\ pc' = [pc EXCEPT ![p] = "done"]

\* validateAgainstSchema: the errors it may return
validateAgainstSchema(s, collection, doc) ==
    Validate(GetSchema(s, collection), doc)

\* the updatedAt of a document, parsed: doc["updatedAt"].(string), parseISO
UpdatedAt(doc) == parseISO(StringField(doc, "updatedAt"))

\* UpsertKeeps with the tie handed to the incoming document
UpsertKeepsOlder(existing, incoming) ==
    /\ existing # Nil
    /\ IsStringField(existing, "updatedAt")
    /\ IsStringField(incoming, "updatedAt")
    /\ UpdatedAt(existing).ok
    /\ UpdatedAt(incoming).ok
    /\ UpdatedAt(incoming).t < UpdatedAt(existing).t

\* UpsertKeeps without the last-write-wins test: every upsert is written
UpsertKeepsNothing(existing, incoming) == FALSE

\* doUpsertItem's last-write-wins test: the stored document is kept
UpsertKeeps(existing, incoming) ==
    /\ existing # Nil
    /\ IsStringField(existing, "updatedAt")
    /\ IsStringField(incoming, "updatedAt")
    /\ UpdatedAt(existing).ok
    /\ UpdatedAt(incoming).ok
    /\ ~After(UpdatedAt(incoming).t, UpdatedAt(existing).t)

\* doUpsertItem, to its first store call: GetSchema and the validation
UpsertValidate(p, collection, key, incoming) ==
    /\ pc[p] = "idle"
    /\ req' = [req EXCEPT ![p] = [NoReq EXCEPT !.op = "upsert",
                  !.collection = collection, !.key = key, !.doc = incoming]]
    /\ IF validateAgainstSchema(schemas, collection, incoming) # {}
       THEN Respond(p, StatusUnprocessableEntity, Nil)
       ELSE /\ pc' = [pc EXCEPT ![p] = "upsert_get"]
            /\ UNCHANGED resp
    /\ UNCHANGED <<collections, schemas, serverDocs, idx, serverTime>>

\* doUpsertItem: Get and the last-write-wins test
UpsertGet(p) ==
    /\ pc[p] = "upsert_get"
    /\ LET existing == Get(collections, req[p].collection, req[p].key)
       IN  IF UpsertKeeps(existing, req[p].doc)
           THEN Respond(p, StatusOK, existing)
           ELSE /\ pc' = [pc EXCEPT ![p] = "upsert_put"]
                /\ UNCHANGED resp
    /\ UNCHANGED <<collections, schemas, req, serverDocs, idx, serverTime>>

\* doUpsertItem: Put and the answer
UpsertPut(p) ==
    /\ pc[p] = "upsert_put"
    /\ collections' = Put(collections, req[p].collection, req[p].key, req[p].doc)
    /\ Respond(p, StatusOK, req[p].doc)
    /\ UNCHANGED <<schemas, req, serverDocs, idx, serverTime>>

\* doDeleteItem
DeleteItem(p, collection, key) ==
    /\ pc[p] = "idle"
    /\ req' = [req EXCEPT ![p] = [NoReq EXCEPT !.op = "delete",
                  !.collection = collection, !.key = key]]
    /\ collections' = Delete(collections, collection, key)
    /\ Respond(p, StatusOK, [status |-> "deleted", key |-> key])
    /\ UNCHANGED <<schemas, serverDocs, idx, serverTime>>

\* NewerThan with the bound included (!Before for After)
NewerThanOrAt(docs, t) ==
    LET keep == {k \in DOMAIN docs :
                    UpdatedAt(docs[k]).ok /\ UpdatedAt(docs[k]).t >= t}
    IN  [k \in keep |-> docs[k]]

\* the documents of docs whose updatedAt parses and is after t
NewerThan(docs, t) ==
    LET keep == {k \in DOMAIN docs :
                    UpdatedAt(docs[k]).ok /\ After(UpdatedAt(docs[k]).t, t)}
    IN  [k \in keep |-> docs[k]]

\* doGetItemsSince; the answer lists the documents of the mapping in body
GetItemsSince(p, collection, timestamp) ==
    /\ pc[p] = "idle"
    /\ req' = [req EXCEPT ![p] = [NoReq EXCEPT !.op = "since",
                  !.collection = collection, !.lastSyncTime = Str(timestamp)]]
    /\ IF ~parseISO(timestamp).ok
       THEN Respond(p, StatusBadRequest, Nil)
       ELSE Respond(p, StatusOK,
                    NewerThan(GetAll(collections, collection), parseISO(timestamp).t))
    /\ UNCHANGED <<collections, schemas, serverDocs, idx, serverTime>>

\* the putSchema endpoint
PutSchemaReq(p, collection, schema) ==
    /\ pc[p] = "idle"
    /\ req' = [req EXCEPT ![p] = [NoReq EXCEPT !.op = "putSchema",
                  !.collection = collection, !.doc = schema]]
    /\ schemas' = PutSchema(schemas, collection, schema)
    /\ Respond(p, StatusOK, schema)
    /\ UNCHANGED <<collections, serverDocs, idx, serverTime>>

\* the deleteSchema endpoint
DeleteSchemaReq(p, collection) ==
    /\ pc[p] = "idle"
    /\ req' = [req EXCEPT ![p] = [NoReq EXCEPT !.op = "deleteSchema",
                  !.collection = collection]]
    /\ schemas' = DeleteSchema(schemas, collection)
    /\ IF ~DeleteSchemaExisted(schemas, collection)
       THEN Respond(p, StatusNotFound, Nil)
       ELSE Respond(p, StatusOK, [status |-> "deleted", collection |-> collection])
    /\ UNCHANGED <<collections, serverDocs, idx, serverTime>>

----------------------------------------------------------------------------
(* doSync *)

\* incoming: "items", or "notes" when "items" is empty
Incoming(r) ==
    IF Len(r.items) = 0 /\ Len(r.notes) > 0 THEN r.notes ELSE r.items

\* lastSync: nil (ok = FALSE) or the parsed lastSyncTime
LastSync(r) ==
    IF r.lastSyncTime # Null /\ r.lastSyncTime.v # << >>
       /\ parseISO(r.lastSyncTime.v).ok
    THEN [ok |-> TRUE, t |-> parseISO(r.lastSyncTime.v).t]
    ELSE [ok |-> FALSE, t |-> 0]

\* keyOf with the fields tried in the order id, key, dateKey
keyOfIdFirst(doc) ==
    LET fields == <<"id", "key", "dateKey">>
        hits == {i \in 1..Len(fields) : StringField(doc, fields[i]) # << >>}
    IN  IF hits = {} THEN << >>
        ELSE StringField(doc, fields[CHOOSE i \in hits : \A j \in hits : i <= j])

\* keyOf: the first of dateKey, key, id that holds a non-empty string
keyOf(doc) ==
    LET fields == <<"dateKey", "key", "id">>
        hits == {i \in 1..Len(fields) : StringField(doc, fields[i]) # << >>}
    IN  IF hits = {} THEN << >>
        ELSE StringField(doc, fields[CHOOSE i \in hits : \A j \in hits : i <= j])

\* the merge loop's `continue` on an empty key: the index of the first
\* candidate from i on that has a key, or Len + 1
RECURSIVE NextKeyed(_, _)
NextKeyed(incoming, i) ==
    IF i > Len(incoming) THEN i
    ELSE IF keyOf(incoming[i]) = << >> THEN NextKeyed(incoming, i + 1)
    ELSE i

\* SyncAccepts without the test of the candidate's parse error
SyncAcceptsUnparsed(docs, key, doc) ==
    ~ /\ key \in DOMAIN docs
      /\ UpdatedAt(docs[key]).ok
      /\ ~After(UpdatedAt(doc).t, UpdatedAt(docs[key]).t)

\* SyncAccepts with the tie handed to the candidate (Before for !After)
SyncAcceptsTie(docs, key, doc) ==
    /\ UpdatedAt(doc).ok
    /\ ~ /\ key \in DOMAIN docs
         /\ UpdatedAt(docs[key]).ok
         /\ UpdatedAt(doc).t < UpdatedAt(docs[key]).t

\* the merge loop's conflict test: the candidate is written
SyncAccepts(docs, key, doc) ==
    /\ UpdatedAt(doc).ok
    /\ ~ /\ key \in DOMAIN docs
         /\ UpdatedAt(docs[key]).ok
         /\ ~After(UpdatedAt(doc).t, UpdatedAt(docs[key]).t)

\* ToReturn without the lastSyncTime filter
ToReturnAll(docs, lastSync) == docs

\* toReturn, as the mapping whose documents the answer lists
ToReturn(docs, lastSync) ==
    IF ~lastSync.ok THEN docs ELSE NewerThan(docs, lastSync.t)

\* the answer's body; "notes" repeats "items" for the notes collection
SyncBody(collection, docs, lastSync, st) ==
    [items |-> ToReturn(docs, lastSync), serverTime |-> st,
     notes |-> IF collection = "notes" THEN ToReturn(docs, lastSync) ELSE Nil]

\* the loop moves to candidate i: the next store call is that candidate's
\* GetSchema, or the loop is over and the answer is written
SyncGoto(p, r, docs, st, i) ==
    /\ idx' = [idx EXCEPT ![p] = NextKeyed(Incoming(r), i)]
    /\ IF NextKeyed(Incoming(r), i) > Len(Incoming(r))
       THEN Respond(p, StatusOK, SyncBody(r.collection, docs, LastSync(r), st))
       ELSE /\ pc' = [pc EXCEPT ![p] = "sync_validate"]
            /\ UNCHANGED resp

\* doc of the merge loop: the candidate the loop is at
Candidate(p) == Incoming(req[p])[idx[p]]

\* SyncGetAll with the schema fetched once, before the loop, and every
\* candidate validated against it there
SyncGetAllValidates(p, collection, items, notes, lastSyncTime) ==
    /\ pc[p] = "idle"
    /\ LET r == [NoReq EXCEPT !.op = "sync", !.collection = collection,
                    !.items = items, !.notes = notes,
                    !.lastSyncTime = lastSyncTime]
           docs == GetAll(collections, collection)
       IN  /\ req' = [req EXCEPT ![p] = r]
           /\ serverTime' = [serverTime EXCEPT ![p] = FormatRFC3339(now)]
           /\ serverDocs' = [serverDocs EXCEPT ![p] = docs]
           /\ IF \E i \in 1..Len(Incoming(r)) :
                    /\ keyOf(Incoming(r)[i]) # << >>
                    /\ validateAgainstSchema(schemas, collection,
                                             Incoming(r)[i]) # {}
              THEN /\ Respond(p, StatusUnprocessableEntity, Nil)
                   /\ UNCHANGED idx
              ELSE SyncGoto(p, r, docs, FormatRFC3339(now), 1)
    /\ UNCHANGED <<collections, schemas>>

\* doSync, to the end of its first store call: serverTime, GetAll
SyncGetAll(p, collection, items, notes, lastSyncTime) ==
    /\ pc[p] = "idle"
    /\ LET r == [NoReq EXCEPT !.op = "sync", !.collection = collection,
                    !.items = items, !.notes = notes,
                    !.lastSyncTime = lastSyncTime]
           docs == GetAll(collections, collection)
       IN  /\ req' = [req EXCEPT ![p] = r]
           /\ serverTime' = [serverTime EXCEPT ![p] = FormatRFC3339(now)]
           /\ serverDocs' = [serverDocs EXCEPT ![p] = docs]
           /\ SyncGoto(p, r, docs, FormatRFC3339(now), 1)
    /\ UNCHANGED <<collections, schemas>>

\* SyncValidate with the conflict test made against the documents the store
\* holds at that moment (a GetAll for each candidate)
SyncValidateRereads(p) ==
    /\ pc[p] = "sync_validate"
    /\ LET doc == Incoming(req[p])[idx[p]]
           key == keyOf(doc)
       IN  IF validateAgainstSchema(schemas, req[p].collection, doc) # {}
           THEN /\ Respond(p, StatusUnprocessableEntity, Nil)
                /\ UNCHANGED <<serverDocs, idx>>
           ELSE IF SyncAccepts(GetAll(collections, req[p].collection), key, doc)
           THEN /\ serverDocs' = [serverDocs EXCEPT ![p] = MapPut(@, key, doc)]
                /\ pc' = [pc EXCEPT ![p] = "sync_put"]
                /\ UNCHANGED <<resp, idx>>
           ELSE /\ SyncGoto(p, req[p], serverDocs[p], serverTime[p], idx[p] + 1)
                /\ UNCHANGED serverDocs
    /\ UNCHANGED <<collections, schemas, req, serverTime>>

\* doSync, one candidate: GetSchema, the validation and the conflict test
SyncValidate(p) ==
    /\ pc[p] = "sync_validate"
    /\ LET doc == Incoming(req[p])[idx[p]]
           key == keyOf(doc)
       IN  IF validateAgainstSchema(schemas, req[p].collection, doc) # {}
           THEN /\ Respond(p, StatusUnprocessableEntity, Nil)
                /\ UNCHANGED <<serverDocs, idx>>
           ELSE IF SyncAccepts(serverDocs[p], key, doc)
           THEN /\ serverDocs' = [serverDocs EXCEPT ![p] = MapPut(@, key, doc)]
                /\ pc' = [pc EXCEPT ![p] = "sync_put"]
                /\ UNCHANGED <<resp, idx>>
           ELSE /\ SyncGoto(p, req[p], serverDocs[p], serverTime[p], idx[p] + 1)
                /\ UNCHANGED serverDocs
    /\ UNCHANGED <<collections, schemas, req, serverTime>>

\* doSync, one accepted candidate: Put
SyncPut(p) ==
    /\ pc[p] = "sync_put"
    /\ LET doc == Incoming(req[p])[idx[p]]
       IN  collections' = Put(collections, req[p].collection, keyOf(doc), doc)
    /\ SyncGoto(p, req[p], serverDocs[p], serverTime[p], idx[p] + 1)
    /\ UNCHANGED <<schemas, req, serverDocs, serverTime>>

\* the answer has been sent: the handler returns
Return(p) ==
    /\ pc[p] = "done"
    /\ pc' = [pc EXCEPT ![p] = "idle"]
    /\ req' = [req EXCEPT ![p] = NoReq]
    /\ resp' = [resp EXCEPT ![p] = NoResp]
    /\ serverDocs' = [serverDocs EXCEPT ![p] = EmptyMap]
    /\ idx' = [idx EXCEPT ![p] = 0]
    /\ serverTime' = [serverTime EXCEPT ![p] = << >>]
    /\ UNCHANGED <<collections, schemas>>

\* the clock advances
Tick ==
    /\ now < Len(DtToken)
    /\ now' = now + 1
    /\ UNCHANGED <<collections, schemas, pc, req, serverDocs, idx, serverTime,
                   resp, pre, lastPut, issued, since, backends>>

----------------------------------------------------------------------------
(* Inputs *)

\* the longest sync batch
MaxBatch == 2

K1 == <<"k1">>
K2 == <<"k2">>
Keys == {K1, K2}

T1Z == <<"T1", "Z">>              \* hour 1
T2Z == <<"T2", "Z">>              \* hour 2
T2Plus1 == <<"T2", "+01:00">>     \* hour 1, written in another zone
T3Bare == <<"T3">>                \* hour 3, without a zone
BadTime == <<"x">>                \* no timestamp

DocA1 == [id |-> Str(K1), updatedAt |-> Str(T1Z), name |-> Word("n")]
DocA2 == [id |-> Str(K1), updatedAt |-> Str(T2Z), name |-> Word("n")]
DocA1Zone == [id |-> Str(K1), updatedAt |-> Str(T2Plus1), name |-> Word("n")]
DocANoTime == [id |-> Str(K1), name |-> Word("n")]
DocABadTime == [id |-> Str(K1), updatedAt |-> Str(BadTime), name |-> Word("n")]
\* no "name": fails NameSchema
DocANoName == [id |-> Str(K1), updatedAt |-> Str(T3Bare)]

Docs == {DocA1, DocA2, DocA1Zone, DocANoTime, DocABadTime, DocANoName}

\* the schema of TestSchemaValidationOnPut
NameSchema ==
    [type |-> Word("object"),
     properties |-> Obj([name |-> Obj([type |-> Word("string")])]),
     required |-> Arr(<<Word("name")>>)]

Coll == "tasks"

\* the sequences over S of length at most n
SeqsUpTo(S, n) == UNION {[1..m -> S] : m \in 0..n}

LastSyncTimes == {Null, Str(T1Z), Str(BadTime)}

SinceTimes == {T1Z, BadTime}

----------------------------------------------------------------------------
(* The store interface, called on the three backends side by side: the     *)
(* shared suite of the store tests runs the same calls against each.        *)

Backends == {"memory", "json", "sqlite"}

\* the stores as they are now
Now == [collections |-> collections, schemas |-> schemas, dir |-> dir,
        tblDocuments |-> tblDocuments, tblSchemas |-> tblSchemas]

\* what the reads of backend b return in the stores st
GetOf(b, st, collection, key) ==
    CASE b = "memory" -> Get(st.collections, collection, key)
      [] b = "json" -> JsonGet(st.dir, collection, key)
      [] b = "sqlite" -> SqliteGet(st.tblDocuments, collection, key)

GetAllOf(b, st, collection) ==
    CASE b = "memory" -> GetAll(st.collections, collection)
      [] b = "json" -> JsonGetAll(st.dir, collection)
      [] b = "sqlite" -> SqliteGetAll(st.tblDocuments, collection)

ListCollectionsOf(b, st) ==
    CASE b = "memory" -> ListCollections(st.collections)
      [] b = "json" -> JsonListCollections(st.dir)
      [] b = "sqlite" -> SqliteListCollections(st.tblDocuments)

GetSchemaOf(b, st, collection) ==
    CASE b = "memory" -> GetSchema(st.schemas, collection)
      [] b = "json" -> JsonGetSchema(st.dir, collection)
      [] b = "sqlite" -> SqliteGetSchema(st.tblSchemas, collection)

ListSchemasOf(b, st) ==
    CASE b = "memory" -> ListSchemas(st.schemas)
      [] b = "json" -> JsonListSchemas(st.dir)
      [] b = "sqlite" -> SqliteListSchemas(st.tblSchemas)

NoLast == [op |-> "none", data |-> Nil, had |-> FALSE]

\* no call yet.  Of a call the suite keeps its arguments and, per backend,
\* its result; as history, whether a document was stored under the key
\* when a Put or a Delete was called (had), and the call made just before
\* when that was a Put or a Delete of the same collection and key (last)
NoRet == [op |-> "none", collection |-> << >>, key |-> << >>, data |-> Nil,
          res |-> [b \in Backends |-> Nil], had |-> FALSE, last |-> NoLast]

\* the state of the request handlers
requests == <<now, pc, req, serverDocs, idx, serverTime, resp, pre, lastPut,
              issued, since>>

\* the state the calls of the suite leave alone
handlers == <<requests, locking, aliasing>>

Returned(op, collection, key, data, mem, json, sqlite) ==
    ret' = [op |-> op, collection |-> collection, key |-> key, data |-> data,
            res |-> [b \in Backends |->
                        CASE b = "memory" -> mem
                          [] b = "json" -> json
                          [] b = "sqlite" -> sqlite],
            had |-> /\ op \in {"Put", "Delete"}
                    /\ DeleteExisted(collections, collection, key),
            last |-> IF /\ ret.op \in {"Put", "Delete"}
                        /\ op \in {"Get", "Delete"}
                        /\ ret.collection = collection
                        /\ ret.key = key
                     THEN [op |-> ret.op, data |-> ret.data, had |-> ret.had]
                     ELSE NoLast]

\* Put; the result is err != nil
CallPut(collection, key, data) ==
    /\ collections' = Put(collections, collection, key, data)
    /\ dir' = JsonPut(dir, collection, key, data)
    /\ tblDocuments' = SqlitePut(tblDocuments, collection, key, data)
    /\ Returned("Put", collection, key, data, FALSE,
                JsonPutErr(dir, collection, key, data), SqlitePutErr(data))
    /\ UNCHANGED <<schemas, tblSchemas, handlers>>

CallGet(collection, key) ==
    /\ Returned("Get", collection, key, Nil, Get(collections, collection, key),
                JsonGet(dir, collection, key),
                SqliteGet(tblDocuments, collection, key))
    /\ UNCHANGED <<collections, schemas, dir, tblDocuments, tblSchemas, handlers>>

CallGetAll(collection) ==
    /\ Returned("GetAll", collection, << >>, Nil, GetAll(collections, collection),
                JsonGetAll(dir, collection),
                SqliteGetAll(tblDocuments, collection))
    /\ UNCHANGED <<collections, schemas, dir, tblDocuments, tblSchemas, handlers>>

\* Delete; the result is existed
CallDelete(collection, key) ==
    /\ collections' = Delete(collections, collection, key)
    /\ dir' = JsonDelete(dir, collection, key)
    /\ tblDocuments' = SqliteDelete(tblDocuments, collection, key)
    /\ Returned("Delete", collection, key, Nil,
                DeleteExisted(collections, collection, key),
                JsonDeleteExisted(dir, collection, key),
                SqliteDeleteExisted(tblDocuments, collection, key))
    /\ UNCHANGED <<schemas, tblSchemas, handlers>>

CallListCollections ==
    /\ Returned("ListCollections", << >>, << >>, Nil,
                ListCollections(collections), JsonListCollections(dir),
                SqliteListCollections(tblDocuments))
    /\ UNCHANGED <<collections, schemas, dir, tblDocuments, tblSchemas, handlers>>

CallGetSchema(collection) ==
    /\ Returned("GetSchema", collection, << >>, Nil,
                GetSchema(schemas, collection), JsonGetSchema(dir, collection),
                SqliteGetSchema(tblSchemas, collection))
    /\ UNCHANGED <<collections, schemas, dir, tblDocuments, tblSchemas, handlers>>

\* PutSchema; the result is err != nil
CallPutSchema(collection, schema) ==
    /\ schemas' = PutSchema(schemas, collection, schema)
    /\ dir' = JsonPutSchema(dir, collection, schema)
    /\ tblSchemas' = SqlitePutSchema(tblSchemas, collection, schema)
    /\ Returned("PutSchema", collection, << >>, schema, FALSE,
                MarshalErr(AsValue(schema)), MarshalErr(AsValue(schema)))
    /\ UNCHANGED <<collections, tblDocuments, handlers>>

\* DeleteSchema; the result is existed
CallDeleteSchema(collection) ==
    /\ schemas' = DeleteSchema(schemas, collection)
    /\ dir' = JsonDeleteSchema(dir, collection)
    /\ tblSchemas' = SqliteDeleteSchema(tblSchemas, collection)
    /\ Returned("DeleteSchema", collection, << >>, Nil,
                DeleteSchemaExisted(schemas, collection),
                JsonDeleteSchemaExisted(dir, collection),
                SqliteDeleteSchemaExisted(tblSchemas, collection))
    /\ UNCHANGED <<collections, tblDocuments, handlers>>

CallListSchemas ==
    /\ Returned("ListSchemas", << >>, << >>, Nil, ListSchemas(schemas),
                JsonListSchemas(dir), SqliteListSchemas(tblSchemas))
    /\ UNCHANGED <<collections, schemas, dir, tblDocuments, tblSchemas, handlers>>

----------------------------------------------------------------------------
(* Concurrent callers of the process's one backend.  Every method of every *)
(* backend locks the instance's RWMutex first (mu.Lock or mu.RLock) and     *)
(* unlocks it when it returns (defer).  A caller is at "lock" (about to     *)
(* lock), in the method's body ("body", and for the file backend's writers  *)
(* "open" and "write": os.WriteFile truncates the file, then writes it), at *)
(* "unlock" (about to return), or "idle".                                   *)

NoCall == [op |-> "none", collection |-> << >>, key |-> << >>, data |-> Nil,
           at |-> "idle", text |-> Nil, res |-> Nil]

\* LockOf with every method taking the read lock
LockOfAllShared(b, op) == "RLock"

\* LockOf with Put taking the read lock
LockOfPutShared(b, op) ==
    IF op \in {"Delete", "PutSchema", "DeleteSchema"} THEN "Lock" ELSE "RLock"

\* the lock a method takes, the same in the three backends: mu.Lock() in
\* Put, Delete, PutSchema and DeleteSchema, mu.RLock() in the others
LockOf(b, op) ==
    IF op \in {"Put", "Delete", "PutSchema", "DeleteSchema"} THEN "Lock"
    ELSE "RLock"

\* sync.RWMutex: Lock returns when no writer and no reader holds the mutex,
\* RLock when no writer holds it
CanLock(m) == ~m.w /\ m.r = 0

\* RLock that does not wait for the writer
CanRLockAlways(m) == TRUE

CanRLock(m) == ~m.w

Locked(m, kind) ==
    IF kind = "Lock" THEN [m EXCEPT !.w = TRUE] ELSE [m EXCEPT !.r = @ + 1]

Unlocked(m, kind) ==
    IF kind = "Lock" THEN [m EXCEPT !.w = FALSE] ELSE [m EXCEPT !.r = @ - 1]

\* the stores become st
SetStores(st) ==
    /\ collections' = st.collections
    /\ schemas' = st.schemas
    /\ dir' = st.dir
    /\ tblDocuments' = st.tblDocuments
    /\ tblSchemas' = st.tblSchemas

\* a caller calls method op: it is at the method's first statement
Enter(p, op, collection, key, data) ==
    /\ call[p].at = "idle"
    /\ call' = [call EXCEPT ![p] = [NoCall EXCEPT !.op = op,
                   !.collection = collection, !.key = key, !.data = data,
                   !.at = "lock"]]
    /\ UNCHANGED <<backend, mu, collections, schemas, dir, tblDocuments,
                   tblSchemas, ret, requests,
                   aliasing>>

\* mu.Lock() or mu.RLock() returns
Acquire(p) ==
    /\ call[p].at = "lock"
    /\ IF LockOf(backend, call[p].op) = "Lock" THEN CanLock(mu) ELSE CanRLock(mu)
    /\ mu' = Locked(mu, LockOf(backend, call[p].op))
    /\ call' = [call EXCEPT ![p].at = "body"]
    /\ UNCHANGED <<backend, collections, schemas, dir, tblDocuments,
                   tblSchemas, ret, requests,
                   aliasing>>

\* what a reading method returns from the stores as they are
ReadResult(b, c) ==
    CASE c.op = "Get" -> GetOf(b, Now, c.collection, c.key)
      [] c.op = "GetAll" -> GetAllOf(b, Now, c.collection)
      [] c.op = "ListCollections" -> ListCollectionsOf(b, Now)
      [] c.op = "GetSchema" -> GetSchemaOf(b, Now, c.collection)
      [] c.op = "ListSchemas" -> ListSchemasOf(b, Now)

\* the body of GetAll, Get, ListCollections, GetSchema, ListSchemas
Read(p) ==
    /\ call[p].at = "body"
    /\ call[p].op \in {"Get", "GetAll", "ListCollections", "GetSchema",
                       "ListSchemas"}
    /\ call' = [call EXCEPT ![p].res = ReadResult(backend, call[p]),
                            ![p].at = "unlock"]
    /\ UNCHANGED <<backend, mu, collections, schemas, dir, tblDocuments,
                   tblSchemas, ret, requests,
                   aliasing>>

\* the stores after the body of a writing method of MemoryStore or
\* SqliteStore
Applied(b, st, c) ==
    CASE b = "memory" /\ c.op = "Put" ->
            [st EXCEPT !.collections = Put(@, c.collection, c.key, c.data)]
      [] b = "memory" /\ c.op = "Delete" ->
            [st EXCEPT !.collections = Delete(@, c.collection, c.key)]
      [] b = "memory" /\ c.op = "PutSchema" ->
            [st EXCEPT !.schemas = PutSchema(@, c.collection, c.data)]
      [] b = "memory" /\ c.op = "DeleteSchema" ->
            [st EXCEPT !.schemas = DeleteSchema(@, c.collection)]
      [] b = "sqlite" /\ c.op = "Put" ->
            [st EXCEPT !.tblDocuments = SqlitePut(@, c.collection, c.key, c.data)]
      [] b = "sqlite" /\ c.op = "Delete" ->
            [st EXCEPT !.tblDocuments = SqliteDelete(@, c.collection, c.key)]
      [] b = "sqlite" /\ c.op = "PutSchema" ->
            [st EXCEPT !.tblSchemas = SqlitePutSchema(@, c.collection, c.data)]
      [] b = "sqlite" /\ c.op = "DeleteSchema" ->
            [st EXCEPT !.tblSchemas = SqliteDeleteSchema(@, c.collection)]

\* err != nil of Put and PutSchema, existed of Delete and DeleteSchema
AppliedResult(b, st, c) ==
    CASE b = "memory" /\ c.op = "Put" -> FALSE
      [] b = "memory" /\ c.op = "Delete" ->
            DeleteExisted(st.collections, c.collection, c.key)
      [] b = "memory" /\ c.op = "PutSchema" -> FALSE
      [] b = "memory" /\ c.op = "DeleteSchema" ->
            DeleteSchemaExisted(st.schemas, c.collection)
      [] b = "sqlite" /\ c.op = "Put" -> SqlitePutErr(c.data)
      [] b = "sqlite" /\ c.op = "Delete" ->
            SqliteDeleteExisted(st.tblDocuments, c.collection, c.key)
      [] b = "sqlite" /\ c.op = "PutSchema" -> MarshalErr(AsValue(c.data))
      [] b = "sqlite" /\ c.op = "DeleteSchema" ->
            SqliteDeleteSchemaExisted(st.tblSchemas, c.collection)

\* the body of Put, Delete, PutSchema, DeleteSchema of MemoryStore (the map
\* is changed) and of SqliteStore (one statement is executed)
Apply(p) ==
    /\ call[p].at = "body"
    /\ call[p].op \in {"Put", "Delete", "PutSchema", "DeleteSchema"}
    /\ backend # "json"
    /\ SetStores(Applied(backend, Now, call[p]))
    /\ call' = [call EXCEPT ![p].res = AppliedResult(backend, Now, call[p]),
                            ![p].at = "unlock"]
    /\ UNCHANGED <<backend, mu, ret, requests,
                   aliasing>>

\* the file a writing method of JsonFileStore rewrites
PathOf(c) ==
    IF c.op \in {"PutSchema", "DeleteSchema"} THEN schemasPath
    ELSE collectionPath(c.collection)

\* the map a writing method of JsonFileStore loads
Loaded(d, c) ==
    IF c.op \in {"PutSchema", "DeleteSchema"}
    THEN RangeOf(loadFile(d, schemasPath))
    ELSE loadCollection(d, collectionPath(c.collection))

\* the value it hands to saveFile
ToSave(coll, c) ==
    CASE c.op = "Put" -> ToValues(MapPut(coll, c.key, c.data))
      [] c.op = "Delete" -> ToValues(MapDelete(coll, c.key))
      [] c.op = "PutSchema" -> Obj(MapPut(coll, c.collection, AsValue(c.data)))
      [] c.op = "DeleteSchema" -> Obj(MapDelete(coll, c.collection))

\* a writing method of JsonFileStore, to the call of os.WriteFile: the file
\* is loaded, the map changed and marshalled; Delete and DeleteSchema return
\* false when the entry is not there
Load(p) ==
    /\ call[p].at = "body"
    /\ call[p].op \in {"Put", "Delete", "PutSchema", "DeleteSchema"}
    /\ backend = "json"
    /\ LET c == call[p]
           coll == Loaded(dir, c)
           entry == IF c.op = "Delete" THEN c.key ELSE c.collection
           deletes == c.op \in {"Delete", "DeleteSchema"}
       IN  IF deletes /\ entry \notin DOMAIN coll
           THEN call' = [call EXCEPT ![p].res = FALSE, ![p].at = "unlock"]
           ELSE IF MarshalErr(ToSave(coll, c))
           THEN call' = [call EXCEPT ![p].res = ~deletes, ![p].at = "unlock"]
           ELSE call' = [call EXCEPT ![p].res = deletes,
                                     ![p].text = Marshal(ToSave(coll, c)),
                                     ![p].at = "open"]
    /\ UNCHANGED <<backend, mu, collections, schemas, dir, tblDocuments,
                   tblSchemas, ret, requests,
                   aliasing>>

\* os.WriteFile opens the file: it is created or truncated
Truncate(p) ==
    /\ call[p].at = "open"
    /\ dir' = MapPut(dir, PathOf(call[p]), Truncated)
    /\ call' = [call EXCEPT ![p].at = "write"]
    /\ UNCHANGED <<backend, mu, collections, schemas, tblDocuments,
                   tblSchemas, ret, requests,
                   aliasing>>

\* os.WriteFile writes the text
Write(p) ==
    /\ call[p].at = "write"
    /\ dir' = MapPut(dir, PathOf(call[p]), call[p].text)
    /\ call' = [call EXCEPT ![p].at = "unlock", ![p].text = Nil]
    /\ UNCHANGED <<backend, mu, collections, schemas, tblDocuments,
                   tblSchemas, ret, requests,
                   aliasing>>

\* Release without defer: the return of Get that finds no document comes
\* before the mu.RUnlock()
ReleaseAfterGetForgets(p) ==
    /\ call[p].at = "unlock"
    /\ mu' = IF call[p].op = "Get" THEN mu
             ELSE Unlocked(mu, LockOf(backend, call[p].op))
    /\ call' = [call EXCEPT ![p] = NoCall]
    /\ UNCHANGED <<backend, collections, schemas, dir, tblDocuments,
                   tblSchemas, ret, requests,
                   aliasing>>

\* the method returns: the deferred mu.Unlock() or mu.RUnlock() runs
Release(p) ==
    /\ call[p].at = "unlock"
    /\ mu' = Unlocked(mu, LockOf(backend, call[p].op))
    /\ call' = [call EXCEPT ![p] = NoCall]
    /\ UNCHANGED <<backend, collections, schemas, dir, tblDocuments,
                   tblSchemas, ret, requests,
                   aliasing>>

----------------------------------------------------------------------------
(* MemoryStore on the heap: a Go map or slice is a reference to an object *)

\* what a caller holds before it has built or received a map
NoHeld == [at |-> 0, from |-> "none"]

\* the last step changed no map a caller holds
NoEdit == [by |-> 0, nested |-> FALSE]

\* an entry of a map or slice that is itself a map or slice; the nil map is
\* the reference to address 0
Ref(a, kind) == [t |-> "ref", v |-> a, kind |-> kind]

IsRef(e) == e.t = "ref"

IsNested(val) == val.t \in {"object", "array"}

\* the address of a new object: the lowest one that is free
Fresh(h) ==
    CHOOSE a \in 1..(Cardinality(DOMAIN h) + 1) :
        a \notin DOMAIN h /\ \A b \in 1..(a - 1) : b \in DOMAIN h

RECURSIVE Alloc(_, _)
RECURSIVE AllocEach(_, _, _)

\* the entries ks of the map or slice m built on heap h, nested values first
AllocEach(h, m, ks) ==
    IF ks = {} THEN [heap |-> h, cell |-> EmptyMap]
    ELSE LET k == CHOOSE x \in ks : TRUE
             one == IF IsNested(m[k]) THEN Alloc(h, m[k])
                    ELSE [heap |-> h, at |-> 0]
             rest == AllocEach(one.heap, m, ks \ {k})
         IN  [heap |-> rest.heap,
              cell |-> MapPut(rest.cell, k,
                              IF IsNested(m[k]) THEN Ref(one.at, m[k].t)
                              ELSE m[k])]

\* a new object that holds value val (a map or a slice), as a literal,
\* make(...) or json.Unmarshal builds it: the heap after, and its address
Alloc(h, val) ==
    LET each == AllocEach(h, val.v, DOMAIN val.v)
        a == Fresh(each.heap)
    IN  [heap |-> MapPut(each.heap, a, each.cell), at |-> a]

RECURSIVE Deref(_, _, _)

\* the value one reads through the reference to a
Deref(h, a, kind) ==
    IF a = 0 THEN Nil
    ELSE [t |-> kind,
          v |-> [k \in DOMAIN h[a] |->
                   IF IsRef(h[a][k]) THEN Deref(h, h[a][k].v, h[a][k].kind)
                   ELSE h[a][k]]]

RECURSIVE Listed(_)

\* the elements of a set, one after the other
Listed(S) ==
    IF S = {} THEN << >>
    ELSE LET x == CHOOSE y \in S : TRUE IN <<x>> \o Listed(S \ {x})

\* the objects the entries of object a refer to
Children(h, a) ==
    LET ks == Listed({k \in DOMAIN h[a] : IsRef(h[a][k])})
    IN  [i \in 1..Len(ks) |-> h[a][ks[i]].v]

RECURSIVE Reach(_, _, _)

\* the objects reachable from the references todo, after those in seen, each
\* once, in the order one meets them
Reach(h, todo, seen) ==
    IF todo = << >> THEN seen
    ELSE IF Head(todo) = 0 \/ \E i \in 1..Len(seen) : seen[i] = Head(todo)
         THEN Reach(h, Tail(todo), seen)
    ELSE Reach(h, Children(h, Head(todo)) \o Tail(todo),
               Append(seen, Head(todo)))

\* what the store and the callers refer to
Roots(c, s, hd) ==
    [i \in 1..Len(Listed(DOMAIN c)) |-> c[Listed(DOMAIN c)[i]]]
        \o [i \in 1..Len(Listed(DOMAIN s)) |-> s[Listed(DOMAIN s)[i]]]
        \o [i \in 1..Len(Listed(Procs)) |-> hd[Listed(Procs)[i]].at]

\* object o with its references renumbered by to
Moved(o, to) ==
    [k \in DOMAIN o |-> IF IsRef(o[k]) THEN Ref(to[o[k].v], o[k].kind)
                        ELSE o[k]]

\* The state after a step that leaves heap h, m.collections c, m.schemas s
\* and the callers holding hd. The garbage collector has run: objects nothing
\* refers to are gone. No operation of the program observes an address, so
\* the objects that remain are numbered in the order Reach meets them.
Settle(h, c, s, hd) ==
    \E left \in {h}, order \in {Reach(h, Roots(c, s, hd), << >>)} :
        LET to == [a \in {0} \cup {order[i] : i \in 1..Len(order)} |->
                     IF a = 0 THEN 0
                     ELSE CHOOSE i \in 1..Len(order) : order[i] = a]
        IN  /\ heap' = [i \in 1..Len(order) |-> Moved(left[order[i]], to)]
            /\ collections' = [x \in DOMAIN c |-> to[c[x]]]
            /\ schemas' = [x \in DOMAIN s |-> to[s[x]]]
            /\ held' = [p \in Procs |-> [hd[p] EXCEPT !.at = to[@]]]

\* a copy that shares the nested maps and slices of the source
deepCopyShallow(h, a) ==
    IF a = 0 THEN [heap |-> h, at |-> 0]
    ELSE [heap |-> MapPut(h, Fresh(h), h[a]), at |-> Fresh(h)]

\* deepCopy, with the objects it builds: json.Unmarshal into a fresh map
deepCopyRef(h, a) ==
    IF a = 0 THEN [heap |-> h, at |-> 0]
    ELSE LET dst == deepCopy(Deref(h, a, "object").v)
         IN  IF dst = Nil THEN [heap |-> h, at |-> 0]
             ELSE Alloc(h, Obj(dst))

RECURSIVE CopyEach(_, _, _)

\* the loop of GetAll and ListSchemas: result[k] = deepCopy(v)
CopyEach(h, m, ks) ==
    IF ks = {} THEN [heap |-> h, cell |-> EmptyMap]
    ELSE LET k == CHOOSE x \in ks : TRUE
             one == deepCopyRef(h, m[k])
             rest == CopyEach(one.heap, m, ks \ {k})
         IN  [heap |-> rest.heap,
              cell |-> MapPut(rest.cell, k, Ref(one.at, "object"))]

\* result := make(...), filled
Result(each) ==
    [heap |-> MapPut(each.heap, Fresh(each.heap), each.cell),
     at |-> Fresh(each.heap)]

\* MemoryStore.Put: c is m.collections, collection -> address of its map
HeapPut(h, c, collection, key, a) ==
    LET made == IF collection \in DOMAIN c
                THEN [heap |-> h, at |-> c[collection]]
                ELSE Alloc(h, Obj(EmptyMap))
        copy == deepCopyRef(made.heap, a)
    IN  [heap |-> [copy.heap EXCEPT
                     ![made.at] = MapPut(@, key, Ref(copy.at, "object"))],
         collections |-> MapPut(c, collection, made.at)]

\* MemoryStore.Get
HeapGet(h, c, collection, key) ==
    IF collection \notin DOMAIN c THEN [heap |-> h, at |-> 0]
    ELSE IF key \notin DOMAIN h[c[collection]] THEN [heap |-> h, at |-> 0]
    ELSE deepCopyRef(h, h[c[collection]][key].v)

\* MemoryStore.GetAll
HeapGetAll(h, c, collection) ==
    IF collection \notin DOMAIN c THEN Alloc(h, Obj(EmptyMap))
    ELSE LET coll == h[c[collection]]
         IN  Result(CopyEach(h, [k \in DOMAIN coll |-> coll[k].v],
                             DOMAIN coll))

\* MemoryStore.GetSchema: s is m.schemas, collection -> address of the schema
HeapGetSchema(h, s, collection) ==
    IF collection \notin DOMAIN s THEN [heap |-> h, at |-> 0]
    ELSE deepCopyRef(h, s[collection])

\* MemoryStore.PutSchema
HeapPutSchema(h, s, collection, a) ==
    LET copy == deepCopyRef(h, a)
    IN  [heap |-> copy.heap, schemas |-> MapPut(s, collection, copy.at)]

\* MemoryStore.ListSchemas
HeapListSchemas(h, s) == Result(CopyEach(h, s, DOMAIN s))

----------------------------------------------------------------------------
(* Specifications *)

\* the process starts with backend b, empty, on a directory that holds the
\* files d
StartIn(b, d) ==
    /\ collections = EmptyMap
    /\ schemas = EmptyMap
    /\ now = 1
    /\ pc = [p \in Procs |-> "idle"]
    /\ req = [p \in Procs |-> NoReq]
    /\ serverDocs = [p \in Procs |-> EmptyMap]
    /\ idx = [p \in Procs |-> 0]
    /\ serverTime = [p \in Procs |-> << >>]
    /\ resp = [p \in Procs |-> NoResp]
    /\ pre = [p \in Procs |-> EmptyMap]
    /\ lastPut = [k \in Keys |-> 0]
    /\ issued = Null
    /\ since = {}
    /\ dir = d
    /\ tblDocuments = EmptyMap
    /\ tblSchemas = EmptyMap
    /\ ret = NoRet
    /\ backend = b
    /\ mu = [w |-> FALSE, r |-> 0]
    /\ call = [p \in Procs |-> NoCall]
    /\ committed = [k \in Keys |-> Nil]
    /\ full = [p \in Procs |-> [k \in Keys |-> {}]]
    /\ heap = EmptyMap
    /\ held = [p \in Procs |-> NoHeld]
    /\ edited = NoEdit

\* the process starts with backend b, empty, on an empty directory
Start(b) == StartIn(b, EmptyMap)

\* the handlers and the suite are modelled on the memory backend
Init == Start("memory")

\* a request arrives: the history keeps the store's documents at that moment
Begin(p) ==
    /\ pre' = [pre EXCEPT ![p] = collections]
    /\ UNCHANGED <<now, issued, since, backends>>

Continue(p) == UNCHANGED <<now, pre, issued, since, backends>>

End(p) ==
    /\ pre' = [pre EXCEPT ![p] = EmptyMap]
    /\ UNCHANGED <<now, lastPut, issued, since, backends>>

\* the history of the writes: handler p has written key k, or nothing
Wrote(p, k) == lastPut' = [lastPut EXCEPT ![k] = p]

NoWrite == UNCHANGED lastPut

\* Sequential executions: one request at a time, served by handler 1.
SeqNext ==
    \/ \E k \in Keys, d \in Docs :
          UpsertValidate(1, Coll, k, d) /\ Begin(1) /\ NoWrite
    \/ UpsertGet(1) /\ Continue(1) /\ NoWrite
    \/ UpsertPut(1) /\ Continue(1) /\ Wrote(1, req[1].key)
    \/ \E k \in Keys : DeleteItem(1, Coll, k) /\ Begin(1) /\ Wrote(1, k)
    \/ \E t \in SinceTimes : GetItemsSince(1, Coll, t) /\ Begin(1) /\ NoWrite
    \/ PutSchemaReq(1, Coll, NameSchema) /\ Begin(1) /\ NoWrite
    \/ DeleteSchemaReq(1, Coll) /\ Begin(1) /\ NoWrite
    \/ \E b \in SeqsUpTo(Docs, MaxBatch), l \in LastSyncTimes :
          SyncGetAll(1, Coll, b, << >>, l) /\ Begin(1) /\ NoWrite
    \/ SyncValidate(1) /\ Continue(1) /\ NoWrite
    \/ SyncPut(1) /\ Continue(1) /\ Wrote(1, keyOf(Candidate(1)))
    \/ Return(1) /\ End(1)

SeqSpec == Init /\ [][SeqNext]_vars

\* the documents of the concurrent executions: hours 1, 2 and 3 under one key
ConcDocs == {DocA1, DocA2, DocANoName}

\* Concurrent executions: the handlers of two requests interleave at the
\* calls of the store.
Next ==
    \E p \in Procs :
        \/ \E d \in ConcDocs :
              UpsertValidate(p, Coll, K1, d) /\ Begin(p) /\ NoWrite
        \/ UpsertGet(p) /\ Continue(p) /\ NoWrite
        \/ UpsertPut(p) /\ Continue(p) /\ Wrote(p, req[p].key)
        \/ DeleteItem(p, Coll, K1) /\ Begin(p) /\ Wrote(p, K1)
        \/ PutSchemaReq(p, Coll, NameSchema) /\ Begin(p) /\ NoWrite
        \/ DeleteSchemaReq(p, Coll) /\ Begin(p) /\ NoWrite
        \/ \E b \in SeqsUpTo(ConcDocs, MaxBatch) :
              SyncGetAll(p, Coll, b, << >>, Null) /\ Begin(p) /\ NoWrite
        \/ SyncValidate(p) /\ Continue(p) /\ NoWrite
        \/ SyncPut(p) /\ Continue(p) /\ Wrote(p, keyOf(Candidate(p)))
        \/ Return(p) /\ End(p)

Spec == Init /\ [][Next]_vars

\* the documents of the watermark rounds: hours 1, 2, 3 and no updatedAt
RoundDocs == {DocA1, DocA2, DocANoName, DocANoTime}

\* the history of the watermark: the client (handler 1) keeps the serverTime
\* of its last answered sync; from then on `since` holds the documents the
\* other handler has stored and that are still the stored ones
Issue ==
    IF req[1].op = "sync" /\ resp[1].status = StatusOK
    THEN issued' = Str(resp[1].body.serverTime) /\ since' = {}
    ELSE UNCHANGED <<issued, since>>

Stored(k) ==
    /\ since' = IF issued = Null THEN since
                ELSE {e \in since : e[1] # k}
                        \cup {<<k, Get(collections', Coll, k)>>}
    /\ UNCHANGED <<now, pre, issued, backends>>

\* the client itself overwrites key k
Overwritten(k) ==
    /\ since' = {e \in since : e[1] # k}
    /\ UNCHANGED <<now, pre, issued, backends>>

\* Watermark rounds: the client syncs with the serverTime of its last sync
\* (or with none the first time) while another handler writes between its
\* rounds and the clock advances; one request at a time.
RoundNext ==
    \/ Tick
    \/ /\ pc[2] = "idle"
       /\ \E b \in SeqsUpTo(RoundDocs, 1) :
             SyncGetAll(1, Coll, b, << >>, issued) /\ Begin(1) /\ NoWrite
    \/ SyncValidate(1) /\ Continue(1) /\ NoWrite
    \/ SyncPut(1) /\ Overwritten(keyOf(Candidate(1)))
                  /\ Wrote(1, keyOf(Candidate(1)))
    \/ Return(1) /\ Issue /\ UNCHANGED <<now, pre, lastPut, backends>>
    \/ /\ pc[1] = "idle"
       /\ \E k \in Keys, d \in RoundDocs :
             UpsertValidate(2, Coll, k, d) /\ Begin(2) /\ NoWrite
    \/ UpsertGet(2) /\ Continue(2) /\ NoWrite
    \/ UpsertPut(2) /\ Stored(req[2].key) /\ Wrote(2, req[2].key)
    \/ /\ pc[1] = "idle"
       /\ \E d \in RoundDocs :
             SyncGetAll(2, Coll, <<d>>, << >>, Null) /\ Begin(2) /\ NoWrite
    \/ SyncValidate(2) /\ Continue(2) /\ NoWrite
    \/ SyncPut(2) /\ Stored(keyOf(Candidate(2))) /\ Wrote(2, keyOf(Candidate(2)))
    \/ Return(2) /\ End(2)

RoundSpec == Init /\ [][RoundNext]_vars

\* the collections, keys and documents of the store suite; a collection may
\* be given any name, "_schemas" included
CCol1 == <<"col1">>
CNotes == <<"notes">>
CSchemas == <<"_", "schemas">>

PlainColls == {CCol1, CNotes}

PlainCells == {<<CCol1, K1>>, <<CCol1, K2>>, <<CNotes, K1>>}

StoreColls == PlainColls \cup {CSchemas}

StoreCells == PlainCells \cup {<<CSchemas, K1>>}

StoreDoc1 == [title |-> Word("hello"), count |-> Float(84),
              tags |-> Arr(<<Word("a"), Null>>),
              meta |-> Obj([done |-> Bool(TRUE)])]
StoreDoc2 == [title |-> Word("updated")]

StoreDocs == {StoreDoc1, StoreDoc2}

\* one call of the store interface, on documents of the collections colls
\* under the <<collection, key>> of cells
StoreCall(cells, colls) ==
    \/ \E cell \in cells, d \in StoreDocs : CallPut(cell[1], cell[2], d)
    \/ \E cell \in cells : CallGet(cell[1], cell[2])
    \/ \E c \in colls : CallGetAll(c)
    \/ \E cell \in cells : CallDelete(cell[1], cell[2])
    \/ CallListCollections
    \/ \E c \in colls : CallGetSchema(c)
    \/ CallPutSchema(CCol1, NameSchema)
    \/ CallDeleteSchema(CCol1)
    \/ CallListSchemas

\* One caller at a time calls the store interface, on the three backends;
\* the collections are named as the suite and the handlers' routes name them.
PlainStoreNext == StoreCall(PlainCells, PlainColls)

PlainStoreSpec == Init /\ [][PlainStoreNext]_vars

\* The same, with a collection of any name, "_schemas" included.
StoreNext == StoreCall(StoreCells, StoreColls)

StoreSpec == Init /\ [][StoreNext]_vars

\* the document a Put or a Delete leaves under its key
Leaves(c) == IF c.op = "Put" THEN c.data ELSE Nil

\* caller q is in a call of one of the methods ops
InCall(q, ops) == call[q].at # "idle" /\ call[q].op \in ops

\* history of a call that begins: a read may return what is committed and
\* what the writes in progress leave; a write in progress adds what it
\* leaves to the reads in progress
Overlap(p, op, key, data) ==
    /\ full' = [q \in Procs |->
                  IF q = p
                  THEN [k \in Keys |->
                          IF op \notin {"Get", "GetAll"} THEN {}
                          ELSE {committed[k]} \cup
                               {Leaves(call[x]) :
                                   x \in {y \in Procs \ {p} :
                                            /\ InCall(y, {"Put", "Delete"})
                                            /\ call[y].key = k}}]
                  ELSE IF op \in {"Put", "Delete"} /\ InCall(q, {"Get", "GetAll"})
                  THEN [full[q] EXCEPT ![key] =
                          @ \cup {IF op = "Put" THEN data ELSE Nil}]
                  ELSE full[q]]
    /\ UNCHANGED committed

\* history of a call that returns
Commit(p) ==
    /\ committed' = IF call[p].op \in {"Put", "Delete"}
                    THEN [committed EXCEPT ![call[p].key] = Leaves(call[p])]
                    ELSE committed
    /\ full' = [full EXCEPT ![p] = [k \in Keys |-> {}]]

\* Concurrent callers of the methods of one backend instance, whichever of
\* the three the process has built.
LockNext ==
    \E p \in Procs :
        \/ \E d \in StoreDocs :
              Enter(p, "Put", CCol1, K1, d) /\ Overlap(p, "Put", K1, d)
        \/ Enter(p, "Put", CCol1, K2, StoreDoc2)
              /\ Overlap(p, "Put", K2, StoreDoc2)
        \/ Enter(p, "Delete", CCol1, K1, Nil) /\ Overlap(p, "Delete", K1, Nil)
        \/ Enter(p, "Get", CCol1, K1, Nil) /\ Overlap(p, "Get", K1, Nil)
        \/ Enter(p, "GetAll", CCol1, << >>, Nil)
              /\ Overlap(p, "GetAll", << >>, Nil)
        \/ \E op \in {"ListCollections", "ListSchemas"} :
              Enter(p, op, << >>, << >>, Nil) /\ Overlap(p, op, << >>, Nil)
        \/ \E op \in {"GetSchema", "DeleteSchema"} :
              Enter(p, op, CCol1, << >>, Nil) /\ Overlap(p, op, << >>, Nil)
        \/ Enter(p, "PutSchema", CCol1, << >>, NameSchema)
              /\ Overlap(p, "PutSchema", << >>, Nil)
        \/ Acquire(p) /\ UNCHANGED <<committed, full>>
        \/ Read(p) /\ UNCHANGED <<committed, full>>
        \/ Apply(p) /\ UNCHANGED <<committed, full>>
        \/ Load(p) /\ UNCHANGED <<committed, full>>
        \/ Truncate(p) /\ UNCHANGED <<committed, full>>
        \/ Write(p) /\ UNCHANGED <<committed, full>>
        \/ Release(p) /\ Commit(p)

LockSpec == (\E b \in Backends : Start(b)) /\ [][LockNext]_vars

----------------------------------------------------------------------------
(* Claims about sequential executions (SeqSpec) *)

\* the document stored under the key of the candidate doSync is at
StoredFor(p) == Get(collections, req[p].collection, keyOf(Candidate(p)))

ValidTime(doc) == doc # Nil /\ UpdatedAt(doc).ok

\* doc's updatedAt is strictly after that of old; both parse
StrictlyAfter(doc, old) ==
    ValidTime(doc) /\ ValidTime(old) /\ UpdatedAt(doc).t > UpdatedAt(old).t

\* the candidate at hand has a key and passes validation now
CandidatePasses(p) ==
    /\ pc[p] = "sync_validate"
    /\ Validate(GetSchema(schemas, req[p].collection), Candidate(p)) = {}

\* the step decides to write the candidate, and the next one writes it
CandidateWritten(p) ==
    /\ pc[p] = "sync_validate" => UNCHANGED collections
    /\ pc[p] = "sync_put" =>
          Get(collections', req[p].collection, keyOf(Candidate(p))) = Candidate(p)

\* C1 as stated: a candidate with a key that passes validation is written
\* if and only if nothing is stored under its key, or the stored updatedAt is
\* missing or unparseable, or the candidate's updatedAt is strictly after
\* the stored one.
C1_AsStated ==
    [][ /\ CandidateWritten(1)
        /\ CandidatePasses(1) =>
             (pc'[1] = "sync_put" <=>
                \/ StoredFor(1) = Nil
                \/ ~ValidTime(StoredFor(1))
                \/ StrictlyAfter(Candidate(1), StoredFor(1))) ]_vars

\* C1 amended: a sync candidate with a key that passes validation is written
\* if and only if its own updatedAt parses and (nothing is stored under its
\* key, or the stored updatedAt is missing or unparseable, or the candidate's
\* updatedAt is strictly after the stored one); equal or older timestamps
\* cause no write and no error.
C1_SyncWritesIff ==
    [][ /\ CandidateWritten(1)
        /\ CandidatePasses(1) =>
             (pc'[1] = "sync_put" <=>
                /\ ValidTime(Candidate(1))
                /\ \/ StoredFor(1) = Nil
                   \/ ~ValidTime(StoredFor(1))
                   \/ StrictlyAfter(Candidate(1), StoredFor(1)))
        /\ (CandidatePasses(1) /\ pc'[1] # "sync_put") =>
               resp'[1].status \in {0, StatusOK} ]_vars

\* C1 witness: a candidate newer than the stored document is about to be
\* written over it
C1_Witness ==
    /\ pc[1] = "sync_put"
    /\ StrictlyAfter(Candidate(1), StoredFor(1))

\* the request of handler p has been answered
Answered(p, op) == pc[p] = "done" /\ req[p].op = op

Rejected(p) == resp[p].status = StatusUnprocessableEntity

\* C2: when a candidate of a sync batch fails validation, the request is
\* rejected and the documents stored in the collection are those stored
\* before the request.
C2_RejectedBatchWritesNothing ==
    (Answered(1, "sync") /\ Rejected(1)) =>
        GetAll(collections, req[1].collection) = GetAll(pre[1], req[1].collection)

FailsSchema(p, doc) ==
    Validate(GetSchema(schemas, req[p].collection), doc) # {}

\* C3: an upsert or a sync candidate whose document fails the schema is
\* answered with the validation failure, and Get for its key returns after
\* the request what it returned before.
C3_InvalidNeverStored ==
    /\ (Answered(1, "upsert") /\ FailsSchema(1, req[1].doc)) =>
          /\ Rejected(1)
          /\ Get(collections, req[1].collection, req[1].key)
               = Get(pre[1], req[1].collection, req[1].key)
    /\ Answered(1, "sync") =>
          \A i \in 1..Len(Incoming(req[1])) :
             LET doc == Incoming(req[1])[i]
             IN  (keyOf(doc) # << >> /\ FailsSchema(1, doc)) =>
                    /\ Rejected(1)
                    /\ Get(collections, req[1].collection, keyOf(doc))
                         = Get(pre[1], req[1].collection, keyOf(doc))

\* the stored documents of a collection whose updatedAt is strictly after t
StoredAfter(collection, t) ==
    LET docs == GetAll(collections, collection)
    IN  [k \in {x \in DOMAIN docs : ValidTime(docs[x]) /\ UpdatedAt(docs[x]).t > t}
           |-> docs[k]]

\* C4: the documents a successful sync returns are the stored documents
\* (after the merge) whose updatedAt is strictly after lastSyncTime, and all
\* stored documents when lastSyncTime is absent; the since-query returns the
\* stored documents whose updatedAt is strictly after its timestamp.
C4_DeltaIsStoredAfter ==
    /\ (Answered(1, "sync") /\ resp[1].status = StatusOK) =>
          /\ req[1].lastSyncTime = Null =>
                resp[1].body.items = GetAll(collections, req[1].collection)
          /\ (req[1].lastSyncTime # Null /\ parseISO(req[1].lastSyncTime.v).ok) =>
                resp[1].body.items =
                   StoredAfter(req[1].collection, parseISO(req[1].lastSyncTime.v).t)
    /\ (Answered(1, "since") /\ resp[1].status = StatusOK) =>
          resp[1].body =
             StoredAfter(req[1].collection, parseISO(req[1].lastSyncTime.v).t)

\* C4 witness: a sync with a lastSyncTime has merged a candidate and returns
\* some stored documents but not all
C4_Witness ==
    /\ Answered(1, "sync") /\ resp[1].status = StatusOK
    /\ LastSync(req[1]).ok
    /\ GetAll(collections, req[1].collection) # GetAll(pre[1], req[1].collection)
    /\ resp[1].body.items # EmptyMap
    /\ DOMAIN resp[1].body.items # DOMAIN GetAll(collections, req[1].collection)

\* the document stored under the upsert's key when the request arrived
StoredBefore(p) == Get(pre[p], req[p].collection, req[p].key)

StoredNow(p) == Get(collections, req[p].collection, req[p].key)

UpsertReads(p) == Get(collections, req[p].collection, req[p].key)

\* C8 as stated: an upsert that passes validation is written whatever the
\* timestamps of the incoming and the stored document.
C8_AsStated ==
    (Answered(1, "upsert") /\ ~Rejected(1)) => StoredNow(1) = req[1].doc

\* C8 amended: an upsert passes through validation and then through its own
\* last-write-wins test: when validation passes, the incoming document is
\* written unless the stored and the incoming document both carry an
\* updatedAt that parses and the incoming one is not strictly after the
\* stored one; then nothing is written.
C8_UpsertWritesUnlessOlder ==
    [][ /\ pc[1] = "upsert_get" =>
             /\ UNCHANGED collections
             /\ pc'[1] = "upsert_put" <=>
                   ~ /\ ValidTime(UpsertReads(1)) /\ ValidTime(req[1].doc)
                     /\ ~StrictlyAfter(req[1].doc, UpsertReads(1))
        /\ pc[1] = "upsert_put" => UpsertReads(1)' = req[1].doc ]_vars

\* C8 witness: an older upsert that passed validation has been answered and
\* the stored document is not the incoming one
C8_Witness ==
    /\ Answered(1, "upsert") /\ ~Rejected(1)
    /\ StrictlyAfter(StoredBefore(1), req[1].doc)
    /\ StoredNow(1) = StoredBefore(1)

\* the document stored under key k of the collection
StoredAt(k) == Get(collections, Coll, k)

\* C9: a document whose updatedAt is absent or malformed never replaces,
\* through sync or upsert, a stored document that carries a valid updatedAt.
C9_UntimedNeverReplacesTimed ==
    [][ \A k \in Keys :
          (ValidTime(StoredAt(k)) /\ StoredAt(k)' # StoredAt(k) /\ StoredAt(k)' # Nil)
             => ValidTime(StoredAt(k)') ]_vars

\* the documents of an answered delta: a sync's items, a since-query's body
DeltaOf(p) == IF req[p].op = "sync" THEN resp[p].body.items ELSE resp[p].body

\* C10 as stated: a sync candidate with an unparseable or missing updatedAt
\* is never written, and no sync response and no since-query result holds a
\* document with an unparseable or missing updatedAt.
C10_AsStated ==
    /\ pc[1] = "sync_put" => ValidTime(Candidate(1))
    /\ ((Answered(1, "sync") \/ Answered(1, "since")) /\ resp[1].status = StatusOK) =>
          \A k \in DOMAIN DeltaOf(1) : ValidTime(DeltaOf(1)[k])

\* C10 amended: a sync candidate with an unparseable or missing updatedAt is
\* never written, and a document with an unparseable or missing updatedAt is
\* in no since-query result and in no sync response computed against a
\* lastSyncTime that parses; a sync whose lastSyncTime is absent (or does not
\* parse) returns the whole collection, such documents included.
C10_UntimedNotInDelta ==
    /\ pc[1] = "sync_put" => ValidTime(Candidate(1))
    /\ ( /\ resp[1].status = StatusOK
         /\ \/ Answered(1, "sync") /\ LastSync(req[1]).ok
            \/ Answered(1, "since") ) =>
          \A k \in DOMAIN DeltaOf(1) : ValidTime(DeltaOf(1)[k])
    /\ (Answered(1, "sync") /\ resp[1].status = StatusOK /\ ~LastSync(req[1]).ok) =>
          DeltaOf(1) = GetAll(collections, req[1].collection)

\* C10 witness: a sync with a lastSyncTime that parses returns some document
\* while the collection holds one without a valid updatedAt
C10_Witness ==
    /\ Answered(1, "sync") /\ resp[1].status = StatusOK /\ LastSync(req[1]).ok
    /\ DeltaOf(1) # EmptyMap
    /\ \E k \in Keys : StoredAt(k) # Nil /\ ~ValidTime(StoredAt(k))

----------------------------------------------------------------------------
(* Claims about concurrent executions (Spec) *)

\* the only candidate of an answered one-candidate sync of handler p
Only(p) == Incoming(req[p])[1]

\* both handlers have answered a one-candidate sync for key k, both read the
\* same collection when they arrived, it held a document for k, and both
\* candidates are strictly newer than that document
Raced(k) ==
    /\ \A p \in Procs :
          /\ Answered(p, "sync") /\ resp[p].status = StatusOK
          /\ Len(Incoming(req[p])) = 1 /\ keyOf(Only(p)) = k
          /\ StrictlyAfter(Only(p), Get(pre[p], Coll, k))
    /\ pre[1] = pre[2]

\* C5: when two concurrent syncs observe the same older stored version of a
\* key, both decide to overwrite and both call Put, and the document finally
\* stored is the candidate of the Put that ran last, whatever the two
\* timestamps; the state in which it is the candidate with the earlier
\* updatedAt is reachable (C5_Witness).
C5_WriteOrderDecides ==
    \A k \in Keys :
        Raced(k) =>
            /\ \A p \in Procs : serverDocs[p][k] = Only(p)
            /\ lastPut[k] \in Procs
            /\ StoredAt(k) = Only(lastPut[k])

\* C5 witness: after such a race the stored document is the candidate with
\* the earlier updatedAt
C5_Witness ==
    /\ Raced(K1)
    /\ \E p \in Procs : StrictlyAfter(Only(p), StoredAt(K1))

----------------------------------------------------------------------------
(* Claims about the watermark (RoundSpec) *)

\* the client's sync with the serverTime of its previous sync is answered
NextRound ==
    /\ Answered(1, "sync") /\ resp[1].status = StatusOK
    /\ issued # Null /\ req[1].lastSyncTime = issued

\* the answer of the client's sync returns document d for key k
Returns(k, d) ==
    k \in DOMAIN resp[1].body.items /\ resp[1].body.items[k] = d

\* C6 as stated: a document stored by another request after a sync returned
\* serverTime S is returned by the client's next sync with lastSyncTime = S,
\* whatever its updatedAt (here: when it is still the stored document).
C6_AsStated ==
    NextRound => \A e \in since : Returns(e[1], e[2])

\* C6 amended: a document d stored by another request after a sync returned
\* serverTime S, and still stored under its key, is returned by the client's
\* next sync with lastSyncTime = S if and only if d's updatedAt parses and is
\* strictly after S; a document written later with an updatedAt at or before
\* S, or with none, is not returned.
C6_WatermarkReturnsNewer ==
    NextRound =>
        \A e \in since :
            /\ StoredAt(e[1]) = e[2]
            /\ Returns(e[1], e[2]) <=>
                  /\ ValidTime(e[2])
                  /\ UpdatedAt(e[2]).t > parseISO(issued.v).t

\* C6 witness: the client's next round returns a document another request
\* stored after the previous round
C6_Witness ==
    /\ NextRound
    /\ \E e \in since : Returns(e[1], e[2])

----------------------------------------------------------------------------
(* Key resolution in doSync (KeySpec) *)

\* candidates with the three key fields present, absent, empty or no string
KeyDateKey == [dateKey |-> Str(K2), key |-> Str(K1), id |-> Str(K1),
               updatedAt |-> Str(T1Z), name |-> Word("n")]
KeyKey == [key |-> Str(K2), id |-> Str(K1), updatedAt |-> Str(T2Z),
           name |-> Word("n")]
KeyEmptyDateKey == [dateKey |-> Str(<< >>), id |-> Str(K1),
                    updatedAt |-> Str(T2Z), name |-> Word("n")]
KeyNumberKey == [key |-> Float(2), id |-> Str(K1), updatedAt |-> Str(T1Z),
                 name |-> Word("n")]
\* no key field at all, and no "name": it would fail NameSchema
KeyNone == [updatedAt |-> Str(T3Bare)]
KeyEmptyId == [id |-> Str(<< >>), updatedAt |-> Str(T3Bare), name |-> Word("n")]

KeyDocs == {KeyDateKey, KeyKey, KeyEmptyDateKey, KeyNumberKey, KeyNone,
            KeyEmptyId, DocANoName}

\* Sequential syncs of candidates whose key fields vary, with and without a
\* schema on the collection; the batch arrives as "items" or as "notes".
KeyNext ==
    \/ PutSchemaReq(1, Coll, NameSchema) /\ Begin(1) /\ NoWrite
    \/ DeleteSchemaReq(1, Coll) /\ Begin(1) /\ NoWrite
    \/ \E b \in SeqsUpTo(KeyDocs, MaxBatch), l \in {Null, Str(T1Z)} :
          SyncGetAll(1, Coll, b, << >>, l) /\ Begin(1) /\ NoWrite
    \/ \E d \in KeyDocs :
          SyncGetAll(1, Coll, << >>, <<d>>, Null) /\ Begin(1) /\ NoWrite
    \/ SyncValidate(1) /\ Continue(1) /\ NoWrite
    \/ SyncPut(1) /\ Continue(1) /\ Wrote(1, keyOf(Candidate(1)))
    \/ Return(1) /\ End(1)

KeySpec == Init /\ [][KeyNext]_vars

\* field f of doc holds a non-empty string
HoldsKey(doc, f) == f \in DOMAIN doc /\ doc[f].t = "string" /\ doc[f].v # << >>

\* the key the claim gives a candidate; << >> when it has none
FirstKey(doc) ==
    IF HoldsKey(doc, "dateKey") THEN doc["dateKey"].v
    ELSE IF HoldsKey(doc, "key") THEN doc["key"].v
    ELSE IF HoldsKey(doc, "id") THEN doc["id"].v
    ELSE << >>

\* the batch without its candidates that have no key
Keyed(b) == SelectSeq(b, LAMBDA d : FirstKey(d) # << >>)

\* the outcome of merging the candidates b[i], b[i+1], ..., every one merged
\* under FirstKey, into the stored documents c with the working copy docs:
\* the merge stops at the first candidate that fails the schema
RECURSIVE MergeKeyed(_, _, _, _, _)
MergeKeyed(c, docs, collection, b, i) ==
    IF i > Len(b) THEN [collections |-> c, docs |-> docs, ok |-> TRUE]
    ELSE IF validateAgainstSchema(schemas, collection, b[i]) # {}
    THEN [collections |-> c, docs |-> docs, ok |-> FALSE]
    ELSE IF SyncAccepts(docs, FirstKey(b[i]), b[i])
    THEN MergeKeyed(Put(c, collection, FirstKey(b[i]), b[i]),
                    MapPut(docs, FirstKey(b[i]), b[i]), collection, b, i + 1)
    ELSE MergeKeyed(c, docs, collection, b, i + 1)

\* C11: a sync candidate is merged under the first of its fields dateKey,
\* key, id that holds a non-empty string; a candidate with none is neither
\* validated nor written and raises no error, and the answered request has
\* stored and returned what the batch without such candidates stores and
\* returns.
C11_KeyResolution ==
    /\ pc[1] \in {"sync_validate", "sync_put"} =>
          /\ FirstKey(Candidate(1)) # << >>
          /\ keyOf(Candidate(1)) = FirstKey(Candidate(1))
    /\ Answered(1, "sync") =>
          LET coll == req[1].collection
              out == MergeKeyed(pre[1], GetAll(pre[1], coll), coll,
                                Keyed(Incoming(req[1])), 1)
          IN  /\ collections = out.collections
              /\ Rejected(1) <=> ~out.ok
              /\ ~Rejected(1) =>
                    /\ resp[1].status = StatusOK
                    /\ resp[1].body = SyncBody(coll, out.docs, LastSync(req[1]),
                                               resp[1].body.serverTime)

\* C11 witness: under a schema, a batch of a candidate without a key (which
\* would fail the schema) and a candidate with dateKey, key and id has been
\* answered without an error, and the second is stored under its dateKey
C11_Witness ==
    /\ Answered(1, "sync")
    /\ resp[1].status = StatusOK
    /\ GetSchema(schemas, Coll) # Nil
    /\ Incoming(req[1]) = <<KeyNone, KeyDateKey>>
    /\ Get(pre[1], Coll, K2) = Nil
    /\ Get(collections, Coll, K2) = KeyDateKey
    /\ Get(collections, Coll, K1) = Get(pre[1], Coll, K1)

----------------------------------------------------------------------------
(* Claims about the store backends (StoreSpec) *)

\* C12: in each of the three backends, a Get that immediately follows
\* Put(c, k, d) returns a document equal to d, whether or not a document was
\* stored under (c, k) before the Put.
C12_PutThenGet ==
    (ret.op = "Get" /\ ret.last.op = "Put") =>
        \A b \in Backends : ret.res[b] = ret.last.data

\* C12 witness: a Get right after a Put that replaced a stored document has
\* returned the new document, nested values included, from every backend
C12_Witness ==
    /\ ret.op = "Get"
    /\ ret.last.op = "Put"
    /\ ret.last.had
    /\ \A b \in Backends : ret.res[b] = StoreDoc1

\* the call of this step is a Delete
Deletes == ret'.op = "Delete" /\ ret' # ret

\* C13: in each backend, Delete of a present key returns existed = true and
\* a Get after it returns absent; Delete of an absent key returns
\* existed = false and leaves the store as it was; a second Delete of the key
\* right after the first returns existed = false.
C13_DeleteOnce ==
    [][ /\ Deletes =>
             \A b \in Backends :
                /\ ret'.res[b] = (GetOf(b, Now, ret'.collection, ret'.key) # Nil)
                /\ GetOf(b, Now', ret'.collection, ret'.key) = Nil
                /\ ret'.last.op = "Delete" => ~ret'.res[b]
        /\ (Deletes /\ \A b \in Backends : ~ret'.res[b]) => Now' = Now
        /\ (ret'.op = "Get" /\ ret'.last.op = "Delete") =>
              \A b \in Backends : ret'.res[b] = Nil ]_vars

\* C13 witness: a second Delete right after a Delete that removed a stored
\* document has returned existed = false from every backend
C13_Witness ==
    /\ ret.op = "Delete"
    /\ ret.last.op = "Delete"
    /\ ret.last.had
    /\ \A b \in Backends : ~ret.res[b]

\* the collections that hold a document in backend b, by what GetAll returns
Holding(b, st) == {c \in PlainColls : GetAllOf(b, st, c) # EmptyMap}

\* C14: in each backend and after any calls, ListCollections returns, sorted
\* and without duplicates, exactly the names of the collections that hold at
\* least one document.
C14_ListCollectionsExact ==
    \A b \in Backends : ListCollectionsOf(b, Now) = SortStrings(Holding(b, Now))

\* C15: every call of the store interface returns the same result on the
\* three backends.
C15_BackendsEquivalent ==
    \A a, b \in Backends : ret.res[a] = ret.res[b]

\* C16: PutSchema and DeleteSchema leave the results of Get, GetAll and
\* ListCollections as they were, and Put and Delete of documents leave the
\* results of GetSchema and ListSchemas as they were, in every backend and
\* for every collection name.
C16_SeparateNamespaces ==
    [][ /\ ret'.op \in {"PutSchema", "DeleteSchema"} =>
             \A b \in Backends :
                /\ ListCollectionsOf(b, Now') = ListCollectionsOf(b, Now)
                /\ \A c \in StoreColls :
                      /\ GetAllOf(b, Now', c) = GetAllOf(b, Now, c)
                      /\ \A k \in Keys \cup StoreColls :
                            GetOf(b, Now', c, k) = GetOf(b, Now, c, k)
        /\ ret'.op \in {"Put", "Delete"} =>
             \A b \in Backends :
                /\ ListSchemasOf(b, Now') = ListSchemasOf(b, Now)
                /\ \A c \in StoreColls \cup Keys :
                      GetSchemaOf(b, Now', c) = GetSchemaOf(b, Now, c) ]_vars

----------------------------------------------------------------------------
(* Claims about concurrent callers of a backend (LockSpec) *)

\* caller p is inside the critical section of its method
InCS(p) == call[p].at \in {"body", "open", "write", "unlock"}

Mutating(p) == call[p].op \in {"Put", "Delete", "PutSchema", "DeleteSchema"}

\* C17: whichever the backend, a caller inside the critical section of Put,
\* Delete, PutSchema or DeleteSchema is alone inside a critical section of
\* the instance; callers of the reading methods may be inside together, and
\* the mutex is held by exactly the callers that are inside.
C17_WritersExclude ==
    /\ \A p, q \in Procs : (p # q /\ InCS(p) /\ Mutating(p)) => ~InCS(q)
    /\ mu.w <=> \E p \in Procs : InCS(p) /\ Mutating(p)
    /\ mu.r = Cardinality({p \in Procs : InCS(p) /\ ~Mutating(p)})

\* C17 witness: a Put of the file backend has truncated the collection file
\* and not yet written it, while another caller waits for the lock in Get
C17_Witness ==
    \E p, q \in Procs :
        /\ call[p].op = "Put" /\ call[p].at = "write"
        /\ dir[PathOf(call[p])] = Truncated
        /\ call[q].op = "Get" /\ call[q].at = "lock"

\* what a Get or a GetAll has returned for key k
ReadFor(c, k) ==
    IF c.op = "Get" THEN c.res
    ELSE IF k \in DOMAIN c.res THEN c.res[k] ELSE Nil

\* C18: a Get or a GetAll returns for each key it reads a document in full:
\* the one stored when the call began or the one of a Put (absent for a
\* Delete) its call overlaps.  Concurrent with Put(c, k, d2) over a stored d1
\* that is d1 or d2, never absent and never a part, and the other keys are
\* returned as they were.
C18_PutIsAtomic ==
    \A p \in Procs :
        (call[p].at = "unlock" /\ call[p].op \in {"Get", "GetAll"}) =>
            \A k \in IF call[p].op = "Get" THEN {call[p].key} ELSE Keys :
                ReadFor(call[p], k) \in full[p][k]

\* C18 witness: a GetAll that began when d1 was stored under k1 and a Put of
\* d2 under k1 was in progress has returned d2 for k1 and the stored
\* document of k2
C18_Witness ==
    \E p \in Procs :
        /\ call[p].at = "unlock" /\ call[p].op = "GetAll"
        /\ full[p][K1] = {StoreDoc1, StoreDoc2}
        /\ full[p][K2] = {StoreDoc2}
        /\ call[p].res = [k \in Keys |-> StoreDoc2]

----------------------------------------------------------------------------
(* Claims about requests that interleave with schema changes (Spec) *)

\* handler p takes the step that calls Put
Puts(p) == pc[p] \in {"upsert_put", "sync_put"} /\ pc'[p] # pc[p]

\* the document that step writes
PutDoc(p) == IF pc[p] = "upsert_put" THEN req[p].doc ELSE Candidate(p)

\* C19: whenever an upsert or a sync writes a document to a collection, the
\* document satisfies the schema attached to the collection at that moment,
\* or none is attached.
C19_WrittenDocSatisfiesSchema ==
    [][ \A p \in Procs :
           Puts(p) =>
              validateAgainstSchema(schemas, req[p].collection, PutDoc(p)) = {}
      ]_vars

----------------------------------------------------------------------------
(* Callers that change the maps they pass and receive (AliasSpec) *)

AliasDoc == [title |-> Word("hello"), meta |-> Obj([done |-> Bool(TRUE)])]

AliasSchema == [type |-> Word("object"), required |-> Arr(<<Word("name")>>)]

\* what a caller writes into a map or slice it holds
Changed == Word("changed")

\* how the caller got a document, a schema, a map of them
HeldDocs == {"doc", "Put", "Get"}

HeldSchemas == {"schema", "PutSchema", "GetSchema"}

HeldResults == {"GetAll", "ListSchemas"}

\* the frame of the callers' steps
beyondHeap == <<requests, dir, tblDocuments, tblSchemas, ret, locking>>

\* caller p holds the object at a, which it got by `from`
Receives(p, a, from) == [held EXCEPT ![p] = [at |-> a, from |-> from]]

\* the objects of the map caller p holds
HeldBy(p) == Reach(heap, <<held[p].at>>, << >>)

\* the caller builds a document or a schema: a map literal
AliasNew(p) ==
    \E kind \in {"doc", "schema"} :
        LET made == Alloc(heap, Obj(IF kind = "doc" THEN AliasDoc
                                    ELSE AliasSchema))
        IN  /\ Settle(made.heap, collections, schemas,
                      Receives(p, made.at, kind))
            /\ edited' = NoEdit

\* store.Put(Coll, key, doc) with the document the caller holds; it goes
\* on holding it
AliasPut(p, key) ==
    /\ held[p].from \in HeldDocs
    /\ held[p].at # 0
    /\ LET put == HeapPut(heap, collections, Coll, key, held[p].at)
       IN  Settle(put.heap, put.collections, schemas,
                  Receives(p, held[p].at, "Put"))
    /\ edited' = NoEdit

AliasGet(p, key) ==
    /\ LET got == HeapGet(heap, collections, Coll, key)
       IN  Settle(got.heap, collections, schemas, Receives(p, got.at, "Get"))
    /\ edited' = NoEdit

AliasGetAll(p) ==
    /\ LET got == HeapGetAll(heap, collections, Coll)
       IN  Settle(got.heap, collections, schemas,
                  Receives(p, got.at, "GetAll"))
    /\ edited' = NoEdit

AliasPutSchema(p) ==
    /\ held[p].from \in HeldSchemas
    /\ held[p].at # 0
    /\ LET put == HeapPutSchema(heap, schemas, Coll, held[p].at)
       IN  Settle(put.heap, collections, put.schemas,
                  Receives(p, held[p].at, "PutSchema"))
    /\ edited' = NoEdit

AliasGetSchema(p) ==
    /\ LET got == HeapGetSchema(heap, schemas, Coll)
       IN  Settle(got.heap, collections, schemas,
                  Receives(p, got.at, "GetSchema"))
    /\ edited' = NoEdit

AliasListSchemas(p) ==
    /\ LET got == HeapListSchemas(heap, schemas)
       IN  Settle(got.heap, collections, schemas,
                  Receives(p, got.at, "ListSchemas"))
    /\ edited' = NoEdit

\* the caller assigns to an entry of the map it holds, or of a map or slice
\* nested in it: doc["title"] = ..., doc["meta"].(map[string]any)["done"] = ...
AliasAssign(p) ==
    \E i \in 1..Len(HeldBy(p)) :
        LET a == HeldBy(p)[i]
        IN  \E k \in DOMAIN heap[a] :
               /\ ~IsRef(heap[a][k])
               /\ heap[a][k] # Changed
               /\ Settle([heap EXCEPT ![a][k] = Changed], collections,
                         schemas, held)
               /\ edited' = [by |-> p, nested |-> a # held[p].at]

\* the caller deletes an entry of the map a call returned: delete(result, k)
AliasDeleteEntry(p) ==
    /\ held[p].at # 0
    /\ held[p].from \in HeldResults
    /\ \E k \in DOMAIN heap[held[p].at] :
          Settle([heap EXCEPT ![held[p].at] = MapDelete(@, k)], collections,
                 schemas, held)
    /\ edited' = [by |-> p, nested |-> FALSE]

\* Two callers of one MemoryStore build documents and schemas, pass them to
\* the store, receive copies, and change what they hold.
AliasNext ==
    \E p \in Procs :
        /\ \/ AliasNew(p)
           \/ AliasPut(p, K1)
           \/ AliasGet(p, K1)
           \/ AliasGetAll(p)
           \/ AliasPutSchema(p)
           \/ AliasGetSchema(p)
           \/ AliasListSchemas(p)
           \/ AliasAssign(p)
           \/ AliasDeleteEntry(p)
        /\ UNCHANGED beyondHeap

AliasSpec == Init /\ [][AliasNext]_vars

\* what the store holds, as values
StoredValue(h, c, s) ==
    [collections |-> [x \in DOMAIN c |-> Deref(h, c[x], "object")],
     schemas |-> [x \in DOMAIN s |-> Deref(h, s[x], "object")]]

\* what caller q holds, as a value
HeldValue(h, hd, q) == Deref(h, hd[q].at, "object")

\* caller p changes the map it holds
Mutates(p) == edited'.by = p

\* C20: when a caller changes a map it passed to Put or PutSchema, or one
\* that Get, GetAll, GetSchema or ListSchemas returned to it (the map itself
\* or a map or slice nested in it), what the store holds stays as it was and
\* so does what every other caller holds.
C20_NeverAliases ==
    [][ \A p \in Procs :
           Mutates(p) =>
              /\ StoredValue(heap', collections', schemas')
                   = StoredValue(heap, collections, schemas)
              /\ \A q \in Procs \ {p} :
                    HeldValue(heap', held', q) = HeldValue(heap, held, q)
      ]_vars

\* one caller has just changed a nested value of the document it passed to
\* Put, the other holds the document Get returned, and the store holds a
\* document and a schema
C20_Witness ==
    \E p, q \in Procs :
        /\ edited = [by |-> p, nested |-> TRUE]
        /\ held[p].from = "Put"
        /\ held[q].from = "Get" /\ held[q].at # 0
        /\ Coll \in DOMAIN collections
        /\ Coll \in DOMAIN schemas

----------------------------------------------------------------------------
(* The handlers on a store whose calls may fail (FaultSpec) *)

\* the error a failing call of the store returns
StoreErr == Err(<< >>, "store")

\* what a request is served with: no failure, or one method that fails
Faults == {{}} \cup {{m} : m \in {"GetAll", "Get", "Put", "Delete",
                                  "GetSchema", "DeleteSchema"}}

\* handler p takes request r
Takes(p, r) == pc[p] = "idle" /\ req' = [req EXCEPT ![p] = r]

\* validateAgainstSchema on a store that may fail: the err of GetSchema, or
\* nil for no schema, or what schema.Validate returns
validateAgainstSchemaErr(s, collection, doc, fails) ==
    IF "GetSchema" \in fails THEN {StoreErr}
    ELSE validateAgainstSchema(s, collection, doc)

doGetItem(p, collection, key, fails) ==
    /\ Takes(p, [NoReq EXCEPT !.op = "getItem", !.collection = collection,
                              !.key = key, !.fails = fails])
    /\ IF "Get" \in fails
       THEN Respond(p, StatusInternalServerError, Nil)
       ELSE IF Get(collections, collection, key) = Nil
       THEN Respond(p, StatusNotFound, Nil)
       ELSE Respond(p, StatusOK, Get(collections, collection, key))
    /\ UNCHANGED <<collections, schemas, serverDocs, idx, serverTime>>

doUpsertItem(p, collection, key, incoming, fails) ==
    /\ Takes(p, [NoReq EXCEPT !.op = "upsert", !.collection = collection,
                              !.key = key, !.doc = incoming, !.fails = fails])
    /\ LET existing == Get(collections, collection, key)
       IN  IF validateAgainstSchemaErr(schemas, collection, incoming, fails) # {}
           THEN /\ \E e \in validateAgainstSchemaErr(schemas, collection,
                                                      incoming, fails) :
                      Respond(p, StatusUnprocessableEntity, e)
                /\ UNCHANGED collections
           ELSE IF "Get" \in fails
           THEN /\ Respond(p, StatusInternalServerError, Nil)
                /\ UNCHANGED collections
           ELSE IF UpsertKeeps(existing, incoming)
           THEN /\ Respond(p, StatusOK, existing)
                /\ UNCHANGED collections
           ELSE IF "Put" \in fails
           THEN /\ Respond(p, StatusInternalServerError, Nil)
                /\ UNCHANGED collections
           ELSE /\ collections' = Put(collections, collection, key, incoming)
                /\ Respond(p, StatusOK, incoming)
    /\ UNCHANGED <<schemas, serverDocs, idx, serverTime>>

doDeleteItem(p, collection, key, fails) ==
    /\ Takes(p, [NoReq EXCEPT !.op = "deleteItem", !.collection = collection,
                              !.key = key, !.fails = fails])
    /\ IF "Delete" \in fails
       THEN /\ Respond(p, StatusInternalServerError, Nil)
            /\ UNCHANGED collections
       ELSE /\ collections' = Delete(collections, collection, key)
            /\ Respond(p, StatusOK, [status |-> "deleted", key |-> key])
    /\ UNCHANGED <<schemas, serverDocs, idx, serverTime>>

RECURSIVE mergeLoopStale(_, _, _, _, _)

\* mergeLoop without `serverDocs[key] = doc`: every candidate is compared
\* with the document GetAll has returned
mergeLoopStale(c, s, r, docs, i) ==
    IF i > Len(Incoming(r))
    THEN [collections |-> c, serverDocs |-> docs, status |-> StatusOK,
          errs |-> {}, puts |-> << >>]
    ELSE LET doc == Incoming(r)[i]
             key == keyOf(doc)
         IN  IF key = << >> THEN mergeLoopStale(c, s, r, docs, i + 1)
             ELSE IF validateAgainstSchemaErr(s, r.collection, doc, r.fails) # {}
             THEN [collections |-> c, serverDocs |-> docs,
                   status |-> StatusUnprocessableEntity,
                   errs |-> validateAgainstSchemaErr(s, r.collection, doc,
                                                     r.fails),
                   puts |-> << >>]
             ELSE IF ~SyncAccepts(docs, key, doc)
             THEN mergeLoopStale(c, s, r, docs, i + 1)
             ELSE IF "Put" \in r.fails
             THEN [collections |-> c, serverDocs |-> docs,
                   status |-> StatusInternalServerError, errs |-> {StoreErr},
                   puts |-> <<key>>]
             ELSE [mergeLoopStale(Put(c, r.collection, key, doc), s, r,
                                  docs, i + 1)
                     EXCEPT !.puts = <<key>> \o @]

RECURSIVE mergeLoop(_, _, _, _, _)

\* doSync's merge loop from candidate i on, with c the store's collections
\* and docs the handler's serverDocs: what it leaves, the status it has
\* written (StatusOK for none, the answer follows), the errors it may
\* have written with it, and the keys of its calls of store.Put, in order
mergeLoop(c, s, r, docs, i) ==
    IF i > Len(Incoming(r))
    THEN [collections |-> c, serverDocs |-> docs, status |-> StatusOK,
          errs |-> {}, puts |-> << >>]
    ELSE LET doc == Incoming(r)[i]
             key == keyOf(doc)
         IN  IF key = << >> THEN mergeLoop(c, s, r, docs, i + 1)
             ELSE IF validateAgainstSchemaErr(s, r.collection, doc, r.fails) # {}
             THEN [collections |-> c, serverDocs |-> docs,
                   status |-> StatusUnprocessableEntity,
                   errs |-> validateAgainstSchemaErr(s, r.collection, doc,
                                                     r.fails),
                   puts |-> << >>]
             ELSE IF ~SyncAccepts(docs, key, doc)
             THEN mergeLoop(c, s, r, docs, i + 1)
             ELSE IF "Put" \in r.fails
             THEN [collections |-> c, serverDocs |-> MapPut(docs, key, doc),
                   status |-> StatusInternalServerError, errs |-> {StoreErr},
                   puts |-> <<key>>]
             ELSE [mergeLoop(Put(c, r.collection, key, doc), s, r,
                             MapPut(docs, key, doc), i + 1)
                     EXCEPT !.puts = <<key>> \o @]

doSync(p, collection, items, notes, lastSyncTime, fails) ==
    LET r == [NoReq EXCEPT !.op = "sync", !.collection = collection,
                           !.items = items, !.notes = notes,
                           !.lastSyncTime = lastSyncTime, !.fails = fails]
        merged == mergeLoop(collections, schemas, r,
                            GetAll(collections, collection), 1)
    IN  /\ Takes(p, r)
        /\ IF "GetAll" \in fails
           THEN /\ Respond(p, StatusInternalServerError, Nil)
                /\ UNCHANGED collections
           ELSE /\ collections' = merged.collections
                /\ IF merged.status # StatusOK
                   THEN \E e \in merged.errs : Respond(p, merged.status, e)
                   ELSE Respond(p, StatusOK,
                                SyncBody(collection, merged.serverDocs,
                                         LastSync(r), FormatRFC3339(now)))
        /\ UNCHANGED <<schemas, serverDocs, idx, serverTime>>

getSchema(p, collection, fails) ==
    /\ Takes(p, [NoReq EXCEPT !.op = "getSchema", !.collection = collection,
                              !.fails = fails])
    /\ IF "GetSchema" \in fails
       THEN Respond(p, StatusInternalServerError, Nil)
       ELSE IF GetSchema(schemas, collection) = Nil
       THEN Respond(p, StatusNotFound, Nil)
       ELSE Respond(p, StatusOK, GetSchema(schemas, collection))
    /\ UNCHANGED <<collections, schemas, serverDocs, idx, serverTime>>

deleteSchema(p, collection, fails) ==
    /\ Takes(p, [NoReq EXCEPT !.op = "deleteSchema", !.collection = collection,
                              !.fails = fails])
    /\ IF "DeleteSchema" \in fails
       THEN /\ Respond(p, StatusInternalServerError, Nil)
            /\ UNCHANGED schemas
       ELSE /\ schemas' = DeleteSchema(schemas, collection)
            /\ IF ~DeleteSchemaExisted(schemas, collection)
               THEN Respond(p, StatusNotFound, Nil)
               ELSE Respond(p, StatusOK, [status |-> "deleted",
                                          collection |-> collection])
    /\ UNCHANGED <<collections, serverDocs, idx, serverTime>>

\* Sequential executions on a store that may fail: one request at a time,
\* each served whole, with at most one method of the store failing. The
\* history of the writers (lastPut) is not kept here.
FaultNext ==
    \/ \E k \in Keys, f \in Faults : doGetItem(1, Coll, k, f) /\ Begin(1) /\ NoWrite
    \/ \E k \in Keys, d \in ConcDocs, f \in Faults :
          doUpsertItem(1, Coll, k, d, f) /\ Begin(1) /\ NoWrite
    \/ \E k \in Keys, f \in Faults :
          doDeleteItem(1, Coll, k, f) /\ Begin(1) /\ NoWrite
    \/ \E b \in SeqsUpTo(ConcDocs, MaxBatch), f \in Faults :
          doSync(1, Coll, b, << >>, Null, f) /\ Begin(1) /\ NoWrite
    \/ \E f \in Faults : getSchema(1, Coll, f) /\ Begin(1) /\ NoWrite
    \/ PutSchemaReq(1, Coll, NameSchema) /\ Begin(1) /\ NoWrite
    \/ \E f \in Faults : deleteSchema(1, Coll, f) /\ Begin(1) /\ NoWrite
    \/ Return(1) /\ End(1)

FaultSpec == Init /\ [][FaultNext]_vars

\* request r addresses a document or a schema the store does not hold
Absent(r) ==
    CASE r.op \in {"getItem", "deleteItem"} ->
             Get(collections, r.collection, r.key) = Nil
      [] r.op \in {"getSchema", "deleteSchema"} ->
             GetSchema(schemas, r.collection) = Nil
      [] OTHER -> FALSE

\* handler p serves a request in this step
Serves(p) == pc[p] = "idle" /\ pc'[p] = "done"

\* C21: a request that reads or deletes an item or a schema the store does
\* not hold, with no call of the store failing, is answered not found.
C21_AbsentIsNotFound ==
    [][ \A p \in Procs :
           (Serves(p) /\ Absent(req'[p]) /\ req'[p].fails = {}) =>
               resp'[p].status = StatusNotFound
      ]_vars

\* the documents request r asks to write
RequestDocs(r) ==
    IF r.op = "upsert" THEN {r.doc}
    ELSE {Incoming(r)[i] : i \in 1..Len(Incoming(r))}

\* C22: an upsert or a sync is answered with the validation failure only if
\* a document of the request violates the schema of its collection; a call
\* of the store that fails, GetSchema included, never gives that answer.
C22_UnprocessableOnlyForSchema ==
    [][ \A p \in Procs :
           ( /\ Serves(p)
             /\ req'[p].op \in {"upsert", "sync"}
             /\ resp'[p].status = StatusUnprocessableEntity ) =>
               \E doc \in RequestDocs(req'[p]) :
                  validateAgainstSchema(schemas, req'[p].collection, doc) # {}
      ]_vars

----------------------------------------------------------------------------
(* Documents that cannot be serialized (UnserializableSpec) *)

\* a document encoding/json cannot marshal: one of its values is a func
\* (or a chan, or the float NaN)
StoreDocBad == [title |-> Word("hello"), hook |-> Unsupported]

\* The calls of the suite, and Put with a document that cannot be serialized.
UnserializableNext ==
    \/ StoreCall(PlainCells, PlainColls)
    \/ \E cell \in PlainCells : CallPut(cell[1], cell[2], StoreDocBad)

UnserializableSpec == Init /\ [][UnserializableNext]_vars

\* the call that has just returned is a Put of a document that cannot be
\* serialized
PutOfUnserializable == ret'.op = "Put" /\ MarshalErr(AsValue(ret'.data))

\* C23: a Put whose document cannot be serialized returns an error in every
\* backend, and Get of its key returns what it returned before.
C23_SerializationFailureIsReturned ==
    [][ PutOfUnserializable =>
           \A b \in Backends :
              /\ ret'.res[b] = TRUE
              /\ GetOf(b, Now', ret'.collection, ret'.key)
                   = GetOf(b, Now, ret'.collection, ret'.key)
      ]_vars

----------------------------------------------------------------------------
(* The validator behind the upsert route (ValidateSpec) *)

\* schemas: required, nested through properties
SRequired == [required |-> Arr(<<Word("name")>>)]

SRequiredNested ==
    [type |-> Word("object"),
     required |-> Arr(<<Word("name")>>),
     properties |-> Obj([meta |-> Obj([required |-> Arr(<<Word("done")>>)])])]

\* schemas: the numeric types
SInteger == [properties |-> Obj([n |-> Obj([type |-> Word("integer")])])]

SNumber == [properties |-> Obj([n |-> Obj([type |-> Word("number")])])]

\* schemas: additionalProperties false, with and without properties
SClosed == [additionalProperties |-> Bool(FALSE),
            properties |-> Obj([name |-> Obj(EmptyMap)])]

SClosedBare == [additionalProperties |-> Bool(FALSE)]

\* a schema whose every node has a type and other constraints
STyped ==
    [type |-> Word("object"),
     required |-> Arr(<<Word("n")>>),
     properties |->
        Obj([n |-> Obj([type |-> Word("string"),
                        enum |-> Arr(<<Word("x")>>),
                        minimum |-> Float(60)]),
             meta |-> Obj([type |-> Word("array"),
                           required |-> Arr(<<Word("done")>>),
                           properties |->
                              Obj([done |-> Obj([type |-> Word("boolean")])]),
                           additionalProperties |-> Bool(FALSE)])])]

ValSchemas == {SRequired, SRequiredNested, SInteger, SNumber, SClosed,
               SClosedBare, STyped}

\* the float 200: whole, and more than an int64 of the model holds
Huge == Float(400)

ValDocs ==
    { EmptyMap,
      [name |-> Null],
      [name |-> Word("x")],
      [name |-> Word("x"), meta |-> Obj(EmptyMap)],
      [name |-> Word("x"), meta |-> Obj([done |-> Null])],
      [meta |-> Obj([done |-> Bool(TRUE)])],
      [name |-> Word("x"), extra |-> Float(2)],
      [n |-> Float(10)],
      [n |-> Float(11)],
      [n |-> Float(-11)],
      [n |-> Float(0)],
      [n |-> Huge],
      [n |-> GoInt(5)],
      [n |-> Word("x")],
      [n |-> Float(10), meta |-> Obj([other |-> Float(2)])],
      [n |-> Word("x"), meta |-> Obj([other |-> Float(2)])] }

\* Schemas are attached and documents are upserted, one request at a time;
\* no call of the store fails.
ValidateNext ==
    \/ \E sch \in ValSchemas : PutSchemaReq(1, Coll, sch) /\ Begin(1) /\ NoWrite
    \/ \E d \in ValDocs : doUpsertItem(1, Coll, K1, d, {}) /\ Begin(1) /\ NoWrite
    \/ Return(1) /\ End(1)

ValidateSpec == Init /\ [][ValidateNext]_vars

\* the upsert that has been answered, its document and the schema it was
\* validated against
Upserted == pc[1] = "done" /\ req[1].op = "upsert" /\ Coll \in DOMAIN schemas

Doc == req[1].doc

Sch == schemas[Coll]

Refused == resp[1].status = StatusUnprocessableEntity

RECURSIVE Lacks(_, _)

\* object obj, or an object nested in it that schema s reaches through
\* properties, has no key for a name of the required list
Lacks(s, obj) ==
    \/ /\ "required" \in DOMAIN s
       /\ s["required"].t = "array"
       /\ \E i \in 1..Len(s["required"].v) :
             /\ s["required"].v[i].t = "string"
             /\ \A f \in DOMAIN obj : <<f>> # s["required"].v[i].v
    \/ /\ "properties" \in DOMAIN s
       /\ IsMap(s["properties"])
       /\ \E f \in DOMAIN s["properties"].v \cap DOMAIN obj :
             /\ IsMap(s["properties"].v[f])
             /\ IsMap(obj[f])
             /\ Lacks(s["properties"].v[f].v, obj[f].v)

\* C24: under a schema that constrains only required fields (at the root
\* and in nested objects), a document is refused exactly when an object
\* lacks a key for a required name; a key that holds null counts as present.
C24_RequiredMeansPresent ==
    (Upserted /\ Sch \in {SRequired, SRequiredNested}) =>
        (Refused <=> Lacks(Sch, Doc))

\* a document whose required field holds null, and whose nested required
\* field holds null, has been accepted
C24_Witness ==
    /\ Upserted
    /\ Sch = SRequiredNested
    /\ Doc = [name |-> Word("x"), meta |-> Obj([done |-> Null])]
    /\ ~Refused

\* the upserted document holds a number under n
Numeric == "n" \in DOMAIN Doc /\ Doc["n"].t \in {"float64", "int"}

\* that number has a fractional component
Fractional == Doc["n"].t = "float64" /\ Doc["n"].v % 2 # 0

\* C25: type integer refuses a number exactly when it has a fractional
\* component, whatever its magnitude; type number accepts every number,
\* integer-typed or not.
C25_IntegerIffNoFraction ==
    (Upserted /\ Numeric) =>
        /\ Sch = SInteger => (Refused <=> Fractional)
        /\ Sch = SNumber => ~Refused

\* the names schema s defines in properties
Defined(s) ==
    IF "properties" \in DOMAIN s /\ IsMap(s["properties"])
    THEN DOMAIN s["properties"].v ELSE {}

\* C26: under a schema with additionalProperties false (and properties that
\* constrain nothing), a document is refused exactly when it has a field
\* that properties does not name; without properties, exactly when it has a
\* field at all.
C26_AdditionalPropertiesFalse ==
    (Upserted /\ Sch \in {SClosed, SClosedBare}) =>
        /\ Refused <=> DOMAIN Doc \ Defined(Sch) # {}
        /\ Sch = SClosedBare => (Refused <=> Doc # EmptyMap)

\* under the schema without properties a document with one field has been
\* refused
C26_Witness ==
    /\ Upserted
    /\ Sch = SClosedBare
    /\ Doc = [name |-> Word("x")]
    /\ Refused

RECURSIVE Mismatched(_, _, _)

\* the paths of the nodes of val, reached through properties, whose value
\* is not of the type their schema names
Mismatched(s, val, path) ==
    (IF IsStringField(s, "type") /\ checkType(s["type"].v, val, path) # {}
     THEN {path} ELSE {})
    \cup
    (IF IsMap(val) /\ "properties" \in DOMAIN s /\ IsMap(s["properties"])
     THEN UNION {Mismatched(s["properties"].v[f].v, val.v[f], Append(path, f)) :
                   f \in {g \in DOMAIN s["properties"].v \cap DOMAIN val.v :
                             IsMap(s["properties"].v[g])}}
     ELSE {})

\* path a leads to path b or above it
IsPrefix(a, b) == Len(a) <= Len(b) /\ SubSeq(b, 1, Len(a)) = a

\* the root object has no key for a name of the root's required list
Missing(s, obj) ==
    /\ "required" \in DOMAIN s
    /\ s["required"].t = "array"
    /\ \E i \in 1..Len(s["required"].v) :
          /\ s["required"].v[i].t = "string"
          /\ \A f \in DOMAIN obj : <<f>> # s["required"].v[i].v

\* C27: a refused upsert is answered with one violation. When the value of a
\* node is not of the schema's type, the violation is never one of another
\* constraint of that node nor one of a node below it; when the root lacks
\* a required field (and is of the right type), the violation is that one,
\* not one of the properties or of additionalProperties.
C27_FailFast ==
    (Upserted /\ Refused) =>
        /\ DOMAIN resp[1].body = {"path", "kind"}
        /\ \A m \in Mismatched(Sch, Obj(Doc), <<"$">>) :
              IsPrefix(m, resp[1].body.path) => resp[1].body = Err(m, "type")
        /\ (Missing(Sch, Doc) /\ <<"$">> \notin Mismatched(Sch, Obj(Doc), <<"$">>))
              => resp[1].body = Err(<<"$">>, "required")

\* the document's meta is an object where the schema names an array, lacks
\* the required field and has a field properties does not name: the type
\* violation of meta has been reported
C27_Witness ==
    /\ Upserted
    /\ Sch = STyped
    /\ Doc = [n |-> Word("x"), meta |-> Obj([other |-> Float(2)])]
    /\ resp[1] = [status |-> StatusUnprocessableEntity,
                  body |-> Err(<<"$", "meta">>, "type")]

----------------------------------------------------------------------------
(* Claims about what a write leaves alone (StoreSpec) *)

\* the call that has just returned is a Put or a Delete
Writes == ret'.op \in {"Put", "Delete"}

\* C28: in every backend, Put and Delete of (collection, key) leave what Get
\* returns for every other pair of a collection and a key as it was.
C28_WriteChangesOneEntry ==
    [][ Writes =>
           \A b \in Backends :
              \A cell \in StoreCells \ {<<ret'.collection, ret'.key>>} :
                 GetOf(b, Now', cell[1], cell[2]) = GetOf(b, Now, cell[1], cell[2])
      ]_vars

\* after a Put, one key holds different documents in two collections, in
\* every backend
C28_Witness ==
    /\ ret.op = "Put"
    /\ \A b \in Backends :
          /\ GetOf(b, Now, CCol1, K1) = StoreDoc1
          /\ GetOf(b, Now, CNotes, K1) = StoreDoc2

----------------------------------------------------------------------------
(* Claims about the file backend under concurrent writers (LockSpec) *)

\* no Put and no Delete is in progress
Quiet == \A p \in Procs : ~InCall(p, {"Put", "Delete"})

\* the documents the finished Puts and Deletes leave, by key
Put_ == [k \in {x \in Keys : committed[x] # Nil} |-> committed[k]]

\* C29: in the file backend, once the concurrent Puts and Deletes of a
\* collection have all returned, GetAll holds under every key the document
\* of the last Put of that key to return, and no key that was deleted last:
\* no update of one key is lost to the rewrite of the file for another.
C29_NoLostUpdate ==
    (backend = "json" /\ Quiet) => JsonGetAll(dir, CCol1) = Put_

\* in the file backend a Put of one key is writing the file while a Put of
\* another key of the collection waits for the lock
C29_Witness ==
    /\ backend = "json"
    /\ \E p, q \in Procs :
          /\ call[p].op = "Put" /\ call[p].key = K1 /\ call[p].at = "write"
          /\ call[q].op = "Put" /\ call[q].key = K2 /\ call[q].at = "lock"
          /\ committed[K1] = Nil /\ committed[K2] = Nil

----------------------------------------------------------------------------
(* A directory with a malformed collection file (MalformedSpec) *)

\* what a file that is no collection holds: nothing (a file opened and not
\* written), a JSON array, the JSON null
MalformedTexts == {Truncated, Arr(<<Float(2)>>), Null}

\* The suite's calls, on a directory where the file of col1 is malformed
\* and the file of notes is missing.
MalformedSpec ==
    /\ \E text \in MalformedTexts :
          StartIn("memory", MapPut(EmptyMap, collectionPath(CCol1), text))
    /\ [][PlainStoreNext]_vars

\* the file of collection c is missing or holds no JSON object
Broken(d, c) ==
    collectionPath(c) \notin DOMAIN d \/ d[collectionPath(c)].t # "object"

\* the call that has just returned addressed a collection whose file was
\* missing or malformed
OnBroken(op) == ret'.op = op /\ Broken(dir, ret'.collection)

\* C30: in the file backend, on a collection whose file is missing or
\* malformed, GetAll returns the empty map, Get returns nil, Delete returns
\* false, and Put returns no error and leaves a file that holds the
\* document put under its key and nothing else.
C30_MalformedIsEmpty ==
    [][ /\ OnBroken("GetAll") => ret'.res["json"] = EmptyMap
        /\ OnBroken("Get") => ret'.res["json"] = Nil
        /\ OnBroken("Delete") => ret'.res["json"] = FALSE
        /\ OnBroken("Put") =>
              /\ ret'.res["json"] = FALSE
              /\ dir'[collectionPath(ret'.collection)]
                   = Obj(MapPut(EmptyMap, ret'.key, Obj(ret'.data)))
      ]_vars

\* Delete has returned false on the collection whose file is there and
\* malformed
C30_Witness ==
    /\ ret.op = "Delete"
    /\ ret.collection = CCol1
    /\ ret.res["json"] = FALSE
    /\ collectionPath(CCol1) \in DOMAIN dir
    /\ Broken(dir, CCol1)

----------------------------------------------------------------------------
(* Sync requests one after the other (MergeSpec, SyncOnlySpec) *)

DocB1 == [id |-> Str(K2), updatedAt |-> Str(T1Z), name |-> Word("n")]

\* under k1: hours 1, 2 and 3, hour 1 written in another zone, no updatedAt;
\* under k2: hour 1
MergeDocs == {DocA1, DocA2, DocA1Zone, DocANoTime, DocANoName, DocB1}

\* handler 1 is served a sync request, and handler 2 the next one while the
\* answer to handler 1 is still known: the same candidates again, or one
\* candidate; handler 1 returns first
SyncThenSync ==
    \/ /\ pc[2] = "idle"
       /\ \E b \in SeqsUpTo(MergeDocs, MaxBatch) :
             doSync(1, Coll, b, << >>, Null, {}) /\ Begin(1) /\ NoWrite
    \/ /\ pc[1] = "done" /\ req[1].op = "sync"
       /\ \E b \in {req[1].items} \cup {<<d>> : d \in MergeDocs} :
             doSync(2, Coll, b, << >>, Null, {}) /\ Begin(2) /\ NoWrite
    \/ Return(1) /\ End(1)
    \/ pc[1] = "idle" /\ Return(2) /\ End(2)

\* the other requests, served by handler 1 between the syncs
BetweenSyncs ==
    /\ pc[2] = "idle"
    /\ \/ \E d \in MergeDocs :
             doUpsertItem(1, Coll, K1, d, {}) /\ Begin(1) /\ NoWrite
       \/ doDeleteItem(1, Coll, K1, {}) /\ Begin(1) /\ NoWrite

SchemaChange ==
    /\ pc[2] = "idle"
    /\ \/ PutSchemaReq(1, Coll, NameSchema) /\ Begin(1) /\ NoWrite
       \/ DeleteSchemaReq(1, Coll) /\ Begin(1) /\ NoWrite

\* handler 1 has been served a delete: handler 2 is served the next request
\* while the answer to handler 1 is still known
AfterDelete ==
    /\ pc[1] = "done" /\ req[1].op = "deleteItem"
    /\ \/ \E d \in MergeDocs :
             doUpsertItem(2, Coll, req[1].key, d, {}) /\ Begin(2) /\ NoWrite
       \/ \E b \in SeqsUpTo(MergeDocs, 1) :
             doSync(2, Coll, b, << >>, Null, {}) /\ Begin(2) /\ NoWrite
       \/ \E t \in SinceTimes :
             GetItemsSince(2, Coll, t) /\ Begin(2) /\ NoWrite

\* Sequential executions: each request is served whole, by a store that
\* does not fail.
MergeNext == SyncThenSync \/ BetweenSyncs \/ SchemaChange \/ AfterDelete

MergeSpec == Init /\ [][MergeNext]_vars

\* Sequential executions made of sync requests and schema changes only.
SyncOnlyNext == SyncThenSync \/ SchemaChange

SyncOnlySpec == Init /\ [][SyncOnlyNext]_vars

\* what the merge loop does for request r, from the store as it is
Merge(r) ==
    mergeLoop(collections, schemas, r, GetAll(collections, r.collection), 1)

\* handler 2 is served the candidates that handler 1 has just been served
Again ==
    /\ pc[1] = "done" /\ req[1].op = "sync"
    /\ pc[2] = "idle" /\ pc'[2] = "done"
    /\ req'[2].items = req[1].items

\* C31: in a sequential execution, the sync request that applies the
\* candidates of the request before it once more calls store.Put for none of
\* them and leaves every collection as the first application has left it.
C31_SyncIsIdempotent ==
    [][Again => /\ Merge(req'[2]).puts = << >>
                /\ collections' = collections]_vars

\* the first application has written, the second has been answered
C31_Witness ==
    /\ pc[1] = "done" /\ pc[2] = "done"
    /\ req[1].op = "sync" /\ req[2].items = req[1].items
    /\ Len(req[1].items) = MaxBatch
    /\ pre[1] # pre[2]
    /\ resp[2].status = StatusOK

\* the two candidates applied one after the other, in the order <<first,
\* second>>: those of handler 1's batch of two, or the one of handler 1's
\* batch and then the one of handler 2's, with the store as it is after both
Applied2 ==
    IF /\ pc[1] = "done" /\ pc[2] = "idle"
       /\ req[1].op = "sync" /\ Len(req[1].items) = 2
    THEN {req[1].items}
    ELSE IF /\ pc[1] = "done" /\ pc[2] = "done"
            /\ req[1].op = "sync" /\ Len(req[1].items) = 1
            /\ req[2].op = "sync" /\ Len(req[2].items) = 1
    THEN {<<req[1].items[1], req[2].items[1]>>}
    ELSE {}

\* two different candidates for one key whose updatedAt parse
SameKeyTimed(a) ==
    /\ a[1] # a[2]
    /\ keyOf(a[1]) # << >> /\ keyOf(a[2]) = keyOf(a[1])
    /\ UpdatedAt(a[1]).ok /\ UpdatedAt(a[2]).ok

\* of two candidates, the one whose updatedAt is later, and the first one
\* when they are equal
Later(a) ==
    IF After(UpdatedAt(a[2]).t, UpdatedAt(a[1]).t) THEN a[2] ELSE a[1]

\* what the store holds under the candidates' key
StoredUnder(c, a) == Get(c, Coll, keyOf(a[1]))

\* C32 as stated: whatever was stored before and whatever the schema, the
\* candidate with the later updatedAt is stored after both were applied, and
\* the first applied when the updatedAt are equal.
C32_AsStated ==
    \A a \in Applied2 :
        SameKeyTimed(a) => StoredUnder(collections, a) = deepCopy(Later(a))

\* candidate d replaces the stored document old
Beats(d, old) ==
    \/ old = Nil
    \/ ~UpdatedAt(old).ok
    \/ After(UpdatedAt(d).t, UpdatedAt(old).t)

\* C32: two candidates for one key, with parseable updatedAt, that both pass
\* the collection's schema are applied in one batch or in two successive
\* syncs.  When the document stored before is absent, has no parseable
\* updatedAt or is older than the later candidate, the later candidate is
\* stored afterwards, in either order, and with equal updatedAt the one
\* applied first; otherwise the document stored before stays.
C32_LaterCandidateWins ==
    \A a \in Applied2 :
        (/\ SameKeyTimed(a)
         /\ \A i \in 1..2 : validateAgainstSchema(schemas, Coll, a[i]) = {})
        => StoredUnder(collections, a)
             = IF Beats(Later(a), StoredUnder(pre[1], a))
               THEN deepCopy(Later(a))
               ELSE StoredUnder(pre[1], a)

\* the later candidate was applied first, in a sync of its own, and is stored
C32_Witness ==
    /\ Applied2 = {<<DocA2, DocA1>>}
    /\ pc[2] = "done"
    /\ StoredUnder(pre[1], <<DocA2, DocA1>>) = Nil
    /\ StoredUnder(collections, <<DocA2, DocA1>>) = DocA2

----------------------------------------------------------------------------
(* Claims about executions made of sync requests only (SyncOnlySpec) *)

\* C33: in a sequential execution of sync requests from the empty store,
\* every stored document has an updatedAt that parses, and from one state
\* to the next a stored key stays stored with an updatedAt that is not
\* earlier.
C33_UpdatedAtNeverDecreases ==
    [][ LET old == GetAll(collections, Coll)
            new == GetAll(collections', Coll)
        IN  /\ \A k \in DOMAIN new : UpdatedAt(new[k]).ok
            /\ \A k \in DOMAIN old :
                  /\ k \in DOMAIN new
                  /\ UpdatedAt(new[k]).t >= UpdatedAt(old[k]).t
      ]_vars

\* a sync has replaced the document of hour 1 by the one of hour 2
C33_Witness ==
    /\ pc[1] = "done" /\ req[1].op = "sync" /\ pc[2] = "idle"
    /\ Get(pre[1], Coll, K1) = DocA1
    /\ Get(collections, Coll, K1) = DocA2

----------------------------------------------------------------------------
(* Claims about one batch with several candidates for a key (MergeSpec) *)

\* handler 1 has answered a sync request with 200 and nothing was served
\* since
Synced == /\ pc[1] = "done" /\ pc[2] = "idle"
          /\ req[1].op = "sync" /\ resp[1].status = StatusOK

\* the candidates of handler 1's batch for key k, as the store keeps them
CandidatesFor(k) ==
    {deepCopy(req[1].items[i]) :
        i \in {j \in 1..Len(req[1].items) : keyOf(req[1].items[j]) = k}}

\* the places of handler 1's batch that hold a candidate for key k
PlacesFor(k) == {j \in 1..Len(req[1].items) : keyOf(req[1].items[j]) = k}

\* the document stored under k before the request and the candidates for k,
\* those whose updatedAt parses
Timed(k) ==
    {d \in CandidatesFor(k) \cup ({Get(pre[1], Coll, k)} \ {Nil}) :
        UpdatedAt(d).ok}

\* C34: after a sync request that is answered 200 and whose batch holds
\* several candidates for key k, the store holds under k one of the
\* document stored before and the candidates, and none of them has a later
\* updatedAt; when none of them has an updatedAt that parses, the document
\* stored before stays.
C34_LatestOfBatchStored ==
    Synced =>
        \A k \in Keys :
            Cardinality(PlacesFor(k)) >= 2 =>
                LET stored == Get(collections, Coll, k)
                IN  IF Timed(k) = {} THEN stored = Get(pre[1], Coll, k)
                    ELSE /\ stored \in Timed(k)
                         /\ \A d \in Timed(k) :
                               UpdatedAt(stored).t >= UpdatedAt(d).t

\* the later candidate came first in the batch and is the one stored
C34_Witness ==
    /\ Synced
    /\ req[1].items = <<DocA2, DocA1>>
    /\ Get(pre[1], Coll, K1) = DocANoTime
    /\ Get(collections, Coll, K1) = DocA2

----------------------------------------------------------------------------
(* Claims about what a delete leaves behind (MergeSpec) *)

\* handler 1's delete has removed a document, and handler 2 is served the
\* next request
NextAfterDelete ==
    /\ pc[1] = "done" /\ req[1].op = "deleteItem"
    /\ Get(pre[1], Coll, req[1].key) # Nil
    /\ pc[2] = "idle" /\ pc'[2] = "done"

\* document d passes the schema of the collection, if it has one
PassesSchema(d) == validateAgainstSchema(schemas, Coll, d) = {}

\* the documents an answer lists: those of a sync's "items" or of a
\* since-query
Listing(p) ==
    IF req[p].op = "sync" THEN resp[p].body.items ELSE resp[p].body

\* C35: right after a delete has removed the document of key k, an upsert
\* for k and a sync candidate for k with a parseable updatedAt, also an
\* updatedAt before the removed document's, are stored when they pass the
\* schema; and the answer to a sync without a candidate for k and to a
\* since-query lists nothing under k.
C35_DeleteLeavesNoTombstone ==
    [][ NextAfterDelete =>
          LET k == req[1].key
              r == req'[2]
          IN  /\ (r.op = "upsert" /\ PassesSchema(r.doc))
                    => Get(collections', Coll, k) = deepCopy(r.doc)
              /\ \A i \in 1..Len(r.items) :
                    (/\ r.op = "sync" /\ keyOf(r.items[i]) = k
                     /\ UpdatedAt(r.items[i]).ok /\ PassesSchema(r.items[i]))
                    => Get(collections', Coll, k) = deepCopy(r.items[i])
              /\ (/\ resp'[2].status = StatusOK
                  /\ r.op \in {"sync", "since"}
                  /\ \A i \in 1..Len(r.items) : keyOf(r.items[i]) # k)
                    => k \notin DOMAIN Listing(2)'
      ]_vars

\* the document of hour 2 was removed and the sync candidate of hour 1 is
\* stored
C35_Witness ==
    /\ pc[1] = "done" /\ req[1].op = "deleteItem" /\ req[1].key = K1
    /\ Get(pre[1], Coll, K1) = DocA2
    /\ pc[2] = "done" /\ req[2].op = "sync" /\ req[2].items = <<DocA1>>
    /\ Get(collections, Coll, K1) = DocA1

----------------------------------------------------------------------------
(* Claims about the snapshot of a sync request (Spec) *)

\* the working copy of a sync request that has dealt with its first n
\* candidates: the documents GetAll returned when the request began, with
\* the request's own accepted candidates put over them
OwnCopy(p, n) ==
    mergeLoop(pre[p], EmptyMap,
              [req[p] EXCEPT !.items = SubSeq(Incoming(req[p]), 1, n)],
              GetAll(pre[p], req[p].collection), 1).serverDocs

\* C36: whatever the other handler writes or deletes meanwhile, the working
\* copy of a sync request is at every candidate the snapshot of its GetAll
\* with its own accepted candidates over it, and so are the documents its
\* answer lists.
C36_SyncUsesItsSnapshot ==
    \A p \in Procs :
        req[p].op = "sync" =>
            /\ pc[p] = "sync_validate" => serverDocs[p] = OwnCopy(p, idx[p] - 1)
            /\ pc[p] = "sync_put" => serverDocs[p] = OwnCopy(p, idx[p])
            /\ (pc[p] = "done" /\ resp[p].status = StatusOK)
                  => resp[p].body.items = OwnCopy(p, Len(Incoming(req[p])))

\* handler 1's candidate of hour 1 has overwritten the document of hour 2
\* that handler 2 stored after handler 1's GetAll
C36_Witness ==
    /\ req[1].op = "sync" /\ pc[1] = "done"
    /\ Get(pre[1], Coll, K1) = Nil
    /\ req[2].op = "upsert" /\ pc[2] = "done" /\ req[2].doc = DocA2
    /\ resp[2] = [status |-> StatusOK, body |-> DocA2]
    /\ lastPut[K1] = 1
    /\ Get(collections, Coll, K1) = DocA1

\* handler 1's answer lists the document that handler 2 has deleted after
\* handler 1's GetAll
StaleAnswer ==
    /\ req[1].op = "sync" /\ pc[1] = "done" /\ resp[1].status = StatusOK
    /\ K1 \in DOMAIN resp[1].body.items
    /\ req[2].op = "delete" /\ pc[2] = "done"
    /\ Get(collections, Coll, K1) = Nil

----------------------------------------------------------------------------
(* Claims about the schema a sync request validates against (Spec) *)

\* handler p's sync request is at a candidate and p takes the step
AtCandidate(p) ==
    /\ pc[p] = "sync_validate"
    /\ <<pc'[p], idx'[p]>> # <<pc[p], idx[p]>>

\* handler p's sync request is answered with 422 in the step
Rejects(p) ==
    /\ req'[p].op = "sync" /\ pc[p] # "done"
    /\ pc'[p] = "done" /\ resp'[p].status = StatusUnprocessableEntity

\* C37: a sync request is answered 422 at a candidate, never before the
\* loop, and exactly when the candidate does not satisfy the schema the
\* store holds for the collection at that moment, whatever the schema was
\* when the request began or at the candidates before.
C37_SchemaFetchedPerCandidate ==
    [][ \A p \in Procs :
          /\ Rejects(p) => AtCandidate(p)
          /\ AtCandidate(p) =>
                (Rejects(p)
                   <=> validateAgainstSchema(schemas, Coll, Candidate(p)) # {})
      ]_vars

\* the same document twice in one batch: the first was stored while the
\* collection had no schema, the second is refused under the schema the
\* other handler has put meanwhile
C37_Witness ==
    /\ req[1].op = "sync" /\ req[1].items = <<DocANoName, DocANoName>>
    /\ pc[1] = "done" /\ resp[1].status = StatusUnprocessableEntity
    /\ idx[1] = 2
    /\ Get(pre[1], Coll, K1) = Nil
    /\ lastPut[K1] = 1 /\ Get(collections, Coll, K1) = DocANoName
    /\ req[2].op = "putSchema" /\ pc[2] = "done"

----------------------------------------------------------------------------
(* The handlers' calls of the store, through its mutex (ServeSpec).  Each   *)
(* call of a handler is a call of a method of MemoryStore: the handler      *)
(* waits for the mutex, runs the method's body and what follows it in the   *)
(* handler, and the method returns.                                         *)

ServeDocs == {DocANoName}

\* the method a handler calls first: GetSchema (upsert), GetAll (sync),
\* Delete, PutSchema, DeleteSchema
FirstCalls == {"GetSchema", "GetAll", "Delete", "PutSchema", "DeleteSchema"}

\* the method the handler calls next, once its request is under way
CallAt(at) ==
    CASE at = "upsert_get" -> "Get"
      [] at = "upsert_put" -> "Put"
      [] at = "sync_validate" -> "GetSchema"
      [] at = "sync_put" -> "Put"

\* what the steps of the callers leave alone
ServeFrame == UNCHANGED <<now, pre, lastPut, issued, since, committed, full>>

\* the handler calls a method of the store
ServeCall(p) ==
    /\ call[p].at = "idle"
    /\ pc[p] # "done"
    /\ \E op \in IF pc[p] = "idle" THEN FirstCalls ELSE {CallAt(pc[p])} :
          call' = [call EXCEPT ![p] = [NoCall EXCEPT !.op = op, !.at = "lock"]]
    /\ UNCHANGED <<backend, mu, collections, schemas, dir, tblDocuments,
                   tblSchemas, ret, requests, aliasing, committed, full>>

\* the body of the method, and the handler's code up to its next call
ServeBody(p) ==
    /\ call[p].at = "body"
    /\ call' = [call EXCEPT ![p].at = "unlock"]
    /\ CASE pc[p] = "idle" /\ call[p].op = "GetSchema" ->
               \E d \in ServeDocs : UpsertValidate(p, Coll, K1, d)
         [] pc[p] = "idle" /\ call[p].op = "GetAll" ->
               \E b \in SeqsUpTo(ServeDocs, MaxBatch) :
                   SyncGetAll(p, Coll, b, << >>, Null)
         [] pc[p] = "idle" /\ call[p].op = "Delete" -> DeleteItem(p, Coll, K1)
         [] pc[p] = "idle" /\ call[p].op = "PutSchema" ->
               PutSchemaReq(p, Coll, NameSchema)
         [] pc[p] = "idle" /\ call[p].op = "DeleteSchema" ->
               DeleteSchemaReq(p, Coll)
         [] pc[p] = "upsert_get" -> UpsertGet(p)
         [] pc[p] = "upsert_put" -> UpsertPut(p)
         [] pc[p] = "sync_validate" -> SyncValidate(p)
         [] pc[p] = "sync_put" -> SyncPut(p)
    /\ UNCHANGED <<backend, mu, dir, tblDocuments, tblSchemas, ret, aliasing>>
    /\ ServeFrame

\* the steps of handler p that the scheduler owes it: all but the wait for
\* the mutex
Runs(p) ==
    \/ pc[p] # "idle" /\ ServeCall(p)
    \/ ServeBody(p)
    \/ Release(p) /\ UNCHANGED <<committed, full>>

\* mu.Lock() or mu.RLock() returns to handler p
Locks(p) == Acquire(p) /\ UNCHANGED <<committed, full>>

ServeNext ==
    \E p \in Procs :
        \/ pc[p] = "idle" /\ ServeCall(p)
        \/ Runs(p)
        \/ Locks(p)
        \/ call[p].at = "idle" /\ Return(p) /\ End(p)

\* Every goroutine that can run does run (the Go scheduler), and a
\* goroutine that waits in Lock or RLock gets the mutex if it is free again
\* and again (sync.RWMutex: a blocked Lock keeps new readers out, Unlock
\* hands the mutex to the readers that wait).
ServeSpec ==
    /\ Init
    /\ [][ServeNext]_vars
    /\ \A p \in Procs : WF_vars(Runs(p)) /\ SF_vars(Locks(p))

\* handler p is in a call of the store or between two calls of a request
Busy(p) == call[p].at # "idle" \/ pc[p] \notin {"idle", "done"}

\* a caller is inside a method, behind its Lock or RLock
Inside(p) == call[p].at \in {"body", "unlock"}

----------------------------------------------------------------------------
(* The validator with the order of the maps made explicit: `order` lists   *)
(* the names in the order in which a range over a map visits them.  Each    *)
(* operator returns the error the code returns in that order, as a set of   *)
(* one error, or the empty set for nil.                                     *)

RECURSIVE validateValueIn(_, _, _, _)

\* the properties loop that returns what the first property it validates
\* returns, error or not
PropertiesErrsInFirstOnly(order, schema, obj, path) ==
    IF "properties" \in DOMAIN schema /\ IsMap(schema["properties"])
    THEN LET propsMap == schema["properties"].v
             visited == {i \in 1..Len(order) :
                            /\ order[i] \in DOMAIN propsMap \cap DOMAIN obj
                            /\ IsMap(propsMap[order[i]])}
             first == CHOOSE i \in visited : \A j \in visited : i <= j
         IN  IF visited = {} THEN {}
             ELSE validateValueIn(order, propsMap[order[first]].v,
                                  obj[order[first]], Append(path, order[first]))
    ELSE {}

\* the properties loop of validateObject, the map ranged over in `order`
PropertiesErrsIn(order, schema, obj, path) ==
    IF "properties" \in DOMAIN schema /\ IsMap(schema["properties"])
    THEN LET propsMap == schema["properties"].v
         IN  FirstErr([i \in 1..Len(order) |->
                 IF /\ order[i] \in DOMAIN propsMap \cap DOMAIN obj
                    /\ IsMap(propsMap[order[i]])
                 THEN validateValueIn(order, propsMap[order[i]].v,
                                      obj[order[i]], Append(path, order[i]))
                 ELSE {}])
    ELSE {}

validateObjectIn(order, schema, obj, path) ==
    FirstErr(<<RequiredErrs(schema, obj, path),
               PropertiesErrsIn(order, schema, obj, path),
               AdditionalErrs(schema, obj, path)>>)

validateArrayIn(order, schema, arr, path) ==
    FirstErr(<<
        IF ToFloatOk(schema, "minItems") /\ 2 * Len(arr) < ToFloat(schema, "minItems")
        THEN {Err(path, "minItems")} ELSE {},
        IF ToFloatOk(schema, "maxItems") /\ 2 * Len(arr) > ToFloat(schema, "maxItems")
        THEN {Err(path, "maxItems")} ELSE {},
        IF "items" \in DOMAIN schema /\ IsMap(schema["items"])
        THEN FirstErr([i \in 1..Len(arr) |->
                 validateValueIn(order, schema["items"].v, arr[i],
                                 Append(path, ToString(i - 1)))])
        ELSE {} >>)

validateValueIn(order, schema, val, path) ==
    LET typeErr == IF IsStringField(schema, "type")
                   THEN checkType(schema["type"].v, val, path) ELSE {}
        enumErr == IF "enum" \in DOMAIN schema /\ schema["enum"].t = "array"
                   THEN checkEnum(schema["enum"].v, val, path) ELSE {}
    IN  IF typeErr # {} THEN typeErr
        ELSE IF enumErr # {} THEN enumErr
        ELSE CASE val.t = "object" -> validateObjectIn(order, schema, val.v, path)
               [] val.t = "array" -> validateArrayIn(order, schema, val.v, path)
               [] val.t = "string" -> validateString(schema, val.v, path)
               [] val.t = "float64" -> validateNumber(schema, val.v, path)
               [] OTHER -> {}

ValidateIn(order, schema, doc) ==
    IF schema = Nil THEN {} ELSE validateValueIn(order, schema, Obj(doc), <<"$">>)

\* the names of the properties of ValSchemas, in every order
Orders ==
    LET names == {"n", "meta", "name", "done"}
    IN  {o \in [1..Cardinality(names) -> names] :
            \A i, j \in 1..Cardinality(names) : o[i] = o[j] => i = j}

\* C39: an upsert is refused with 422 if and only if Validate returns an
\* error in every order of the properties, and accepted if and only if it
\* returns nil in every order; the violation a refusal reports is the one
\* of some order.
C39_VerdictIsOrderIndependent ==
    Upserted =>
        /\ \A o \in Orders : (ValidateIn(o, Sch, Doc) # {}) <=> Refused
        /\ Refused => \E o \in Orders : ValidateIn(o, Sch, Doc) = {resp[1].body}

\* a refused upsert whose violation depends on the order: two properties
\* are invalid
C39_Witness ==
    /\ Upserted /\ Refused
    /\ \E o1, o2 \in Orders :
          /\ ValidateIn(o1, Sch, Doc) # {}
          /\ ValidateIn(o2, Sch, Doc) # {}
          /\ ValidateIn(o1, Sch, Doc) # ValidateIn(o2, Sch, Doc)

=============================================================================
